---- MODULE Spec2Model ----
(***************************************************************************)
(* Verification model of the pave-ai-estimator pricing engine              *)
(* (src/src/lib/calculationEngine.ts, class AdvancedCalculationEngine) and *)
(* of the estimate persistence of the database service                     *)
(* (src/unnamed/part_009, DatabaseService.saveEstimate).                   *)
(*                                                                         *)
(* Numbers.  The engine computes with JavaScript numbers.  The model       *)
(* computes the same expressions over exact non-negative rationals n/d     *)
(* whose numerator and denominator are arbitrary-size naturals (TLC's      *)
(* integers are 32 bit, the totals of an estimate are not).  d = 0 stands  *)
(* for the two non-finite results a division can give: 1/0 is Infinity and *)
(* 0/0 is NaN.  Rounding error of IEEE doubles is not modelled.            *)
(***************************************************************************)
EXTENDS Integers, Sequences, FiniteSets, TLC

-----------------------------------------------------------------------------
(* Arbitrary-size naturals: little-endian sequences of limbs, no leading   *)
(* (most significant) zero limb; <<>> is 0.                                *)

Base == 100 * 100

RECURSIVE BigFromInt(_)
BigFromInt(k) == IF k = 0 THEN <<>> ELSE <<k % Base>> \o BigFromInt(k \div Base)

RECURSIVE BigAddC(_, _, _)
BigAddC(a, b, c) ==
  IF a = <<>> /\ b = <<>> THEN (IF c = 0 THEN <<>> ELSE <<c>>)
  ELSE LET x == (IF a = <<>> THEN 0 ELSE Head(a)) + (IF b = <<>> THEN 0 ELSE Head(b)) + c
       IN  <<x % Base>> \o BigAddC(IF a = <<>> THEN a ELSE Tail(a),
                                   IF b = <<>> THEN b ELSE Tail(b), x \div Base)

BigAdd(a, b) == BigAddC(a, b, 0)

RECURSIVE BigMulSmallC(_, _, _)
BigMulSmallC(a, k, c) ==
  IF a = <<>> THEN (IF c = 0 THEN <<>> ELSE <<c>>)
  ELSE LET x == Head(a) * k + c
       IN  <<x % Base>> \o BigMulSmallC(Tail(a), k, x \div Base)

RECURSIVE BigMul(_, _)
BigMul(a, b) ==
  IF a = <<>> \/ b = <<>> THEN <<>>
  ELSE LET lo == IF Head(a) = 0 THEN <<>> ELSE BigMulSmallC(b, Head(a), 0)
           hi == BigMul(Tail(a), b)
       IN  BigAdd(lo, IF hi = <<>> THEN hi ELSE <<0>> \o hi)

RECURSIVE BigLtFrom(_, _, _)
BigLtFrom(a, b, i) ==
  IF i = 0 THEN FALSE
  ELSE IF a[i] # b[i] THEN a[i] < b[i]
  ELSE BigLtFrom(a, b, i - 1)

BigLt(a, b) == IF Len(a) # Len(b) THEN Len(a) < Len(b) ELSE BigLtFrom(a, b, Len(a))

\* a - b - br, limb by limb, for a >= b + br; BigStrip drops the leading zero limbs
RECURSIVE BigSubB(_, _, _)
BigSubB(a, b, br) ==
  IF a = <<>> THEN <<>>
  ELSE LET y == Head(a) - (IF b = <<>> THEN 0 ELSE Head(b)) - br
       IN  <<IF y < 0 THEN y + Base ELSE y>>
           \o BigSubB(Tail(a), IF b = <<>> THEN b ELSE Tail(b), IF y < 0 THEN 1 ELSE 0)

RECURSIVE BigStrip(_)
BigStrip(s) == IF s # <<>> /\ s[Len(s)] = 0 THEN BigStrip(SubSeq(s, 1, Len(s) - 1)) ELSE s

-----------------------------------------------------------------------------
(* JavaScript numbers as rationals [n, d].  Reduce only cancels common     *)
(* factors of Base, so equal numbers may have different representations:   *)
(* numbers are compared with REq/RLt/RLe, never with =.                    *)

RECURSIVE Reduce(_, _)
Reduce(n, d) ==
  IF n = <<>> THEN [n |-> <<>>, d |-> IF d = <<>> THEN d ELSE <<1>>]
  ELSE IF d = <<>> THEN [n |-> <<1>>, d |-> <<>>]
  ELSE IF Head(n) = 0 /\ Head(d) = 0 THEN Reduce(Tail(n), Tail(d))
  ELSE [n |-> n, d |-> d]

R(n, d) == Reduce(BigFromInt(n), BigFromInt(d))
RInt(k) == R(k, 1)
Zero == RInt(0)
One == RInt(1)
Infinity == R(1, 0)
NaN == R(0, 0)

IsFinite(x) == x.d # <<>>
IsNaN(x) == x.d = <<>> /\ x.n = <<>>

\* a * b
RMul(x, y) == Reduce(BigMul(x.n, y.n), BigMul(x.d, y.d))
\* a division with its operands exchanged: b / a
RDivExchanged(x, y) == Reduce(BigMul(x.d, y.n), BigMul(x.n, y.d))
\* a / b  (x / 0 is Infinity for x > 0 and NaN for x = 0)
RDiv(x, y) == Reduce(BigMul(x.n, y.d), BigMul(x.d, y.n))
\* a + b
RAdd(x, y) ==
  IF IsNaN(x) \/ IsNaN(y) THEN NaN
  ELSE IF x.d = y.d THEN Reduce(BigAdd(x.n, y.n), x.d)
  ELSE Reduce(BigAdd(BigMul(x.n, y.d), BigMul(y.n, x.d)), BigMul(x.d, y.d))
\* a < b, a <= b, a >= b, a === b: every comparison with NaN is false
RLt(x, y) ==
  IF IsNaN(x) \/ IsNaN(y) THEN FALSE
  ELSE IF ~IsFinite(x) THEN FALSE
  ELSE IF ~IsFinite(y) THEN TRUE
  ELSE BigLt(BigMul(x.n, y.d), BigMul(y.n, x.d))
REq(x, y) ==
  IF IsNaN(x) \/ IsNaN(y) THEN FALSE
  ELSE IF ~IsFinite(x) \/ ~IsFinite(y) THEN x = y
  ELSE BigMul(x.n, y.d) = BigMul(y.n, x.d)
RLe(x, y) == RLt(x, y) \/ REq(x, y)
RGe(x, y) == RLe(y, x)
\* 1 - x, for a finite 0 <= x <= 1
OneMinus(x) == Reduce(BigStrip(BigSubB(x.d, x.n, 0)), x.d)

\* Math.max(a, b): NaN if either is NaN
MathMax(x, y) ==
  IF IsNaN(x) \/ IsNaN(y) THEN NaN
  ELSE IF RLt(x, y) THEN y ELSE x

\* Math.ceil(x) for x >= 0: the least natural k with k >= x; Infinity and NaN
\* are their own ceiling
RECURSIVE CeilUpper(_, _)
CeilUpper(x, h) == IF RLe(x, RInt(h)) THEN h ELSE CeilUpper(x, 2 * h)
RECURSIVE CeilBisect(_, _, _)
CeilBisect(x, lo, hi) ==
  IF hi - lo <= 1 THEN hi
  ELSE LET mid == (lo + hi) \div 2
       IN  IF RLe(x, RInt(mid)) THEN CeilBisect(x, lo, mid) ELSE CeilBisect(x, mid, hi)
\* Math.floor(x) for x >= 0: the greatest natural k with k <= x
MathFloor(x) ==
  IF ~IsFinite(x) THEN x
  ELSE IF x.n = <<>> THEN Zero
  ELSE LET h == CeilUpper(x, 1)
           c == CeilBisect(x, h \div 2, h)
       IN  IF REq(x, RInt(c)) THEN RInt(c) ELSE RInt(c - 1)
MathCeil(x) ==
  IF ~IsFinite(x) THEN x
  ELSE IF x.n = <<>> THEN Zero
  ELSE LET h == CeilUpper(x, 1) IN RInt(CeilBisect(x, h \div 2, h))

\* Math.ceil(Math.sqrt(q)) for q >= 0: the least natural k with k*k >= q;
\* Infinity and NaN give themselves
RECURSIVE CeilSqrtUpper(_, _)
CeilSqrtUpper(q, h) == IF RLe(q, RInt(h * h)) THEN h ELSE CeilSqrtUpper(q, 2 * h)
RECURSIVE CeilSqrtBisect(_, _, _)
CeilSqrtBisect(q, lo, hi) ==
  IF hi - lo <= 1 THEN hi
  ELSE LET mid == (lo + hi) \div 2
       IN  IF RLe(q, RInt(mid * mid)) THEN CeilSqrtBisect(q, lo, mid)
           ELSE CeilSqrtBisect(q, mid, hi)
\* Math.floor(Math.sqrt(q)) for q >= 0: the greatest natural k with k*k <= q
FloorSqrt(q) ==
  IF ~IsFinite(q) THEN q
  ELSE IF q.n = <<>> THEN Zero
  ELSE LET h == CeilSqrtUpper(q, 1)
           c == CeilSqrtBisect(q, h \div 2, h)
       IN  IF REq(q, RInt(c * c)) THEN RInt(c) ELSE RInt(c - 1)
CeilSqrt(q) ==
  IF ~IsFinite(q) THEN q
  ELSE IF q.n = <<>> THEN Zero
  ELSE LET h == CeilSqrtUpper(q, 1) IN RInt(CeilSqrtBisect(q, h \div 2, h))

-----------------------------------------------------------------------------
(* Strings that are lower-cased by the engine are sequences of one-letter  *)
(* strings; String.prototype.toLowerCase maps each letter.                 *)

\* the lower-case letter of each upper-case letter
LOWER ==
  [A |-> "a", B |-> "b", C |-> "c", D |-> "d", E |-> "e", F |-> "f", G |-> "g",
   H |-> "h", I |-> "i", J |-> "j", K |-> "k", L |-> "l", M |-> "m", N |-> "n",
   O |-> "o", P |-> "p", Q |-> "q", R |-> "r", S |-> "s", T |-> "t", U |-> "u",
   V |-> "v", W |-> "w", X |-> "x", Y |-> "y", Z |-> "z"]

toLowerChar(ch) == IF ch \in DOMAIN LOWER THEN LOWER[ch] ELSE ch

\* a conversion that keeps the letter case of every character
toSameCase(str) == str
RECURSIVE toLowerCase(_)
toLowerCase(str) ==
  IF str = <<>> THEN <<>> ELSE <<toLowerChar(Head(str))>> \o toLowerCase(Tail(str))

s_virginia == <<"v","i","r","g","i","n","i","a">>
s_Virginia == <<"V","i","r","g","i","n","i","a">>
s_north_carolina == <<"n","o","r","t","h","-","c","a","r","o","l","i","n","a">>
s_North_Carolina == <<"N","o","r","t","h"," ","C","a","r","o","l","i","n","a">>
s_texas == <<"t","e","x","a","s">>
s_Texas == <<"T","e","x","a","s">>
s_TEXAS == <<"T","E","X","A","S">>
s_ohio == <<"o","h","i","o">>
s_constructor == <<"c","o","n","s","t","r","u","c","t","o","r">>

-----------------------------------------------------------------------------
(* The catalogs.                                                           *)

\* DEFAULT_REGIONAL_PRICING['virginia']
VirginiaPricing ==
  [region |-> s_Virginia, state |-> "VA", taxRate |-> R(53, 1000),
   materials |->
     [sealer |-> [pricePerGallon |-> R(365, 100), coverageRate |-> R(769, 100),
                  supplier |-> "SealMaster"],
      sand |-> [pricePerBag |-> R(1000, 100), bagsPerGallon |-> R(2, 100),
                supplier |-> "Local Supplier"],
      fastDry |-> [pricePerBucket |-> R(5000, 100), bucketsPerGallon |-> R(67, 10000),
                   supplier |-> "SealMaster"],
      prepSeal |-> [pricePerBucket |-> R(5000, 100), bucketsPerProject |-> RInt(1),
                    supplier |-> "SealMaster"],
      crackFiller |-> [pricePerBox |-> R(4499, 100), coveragePerBox |-> RInt(100),
                       supplier |-> "SealMaster"],
      propane |-> [pricePerTank |-> R(1000, 100), tanksPerLinearFoot |-> R(5, 1000),
                   supplier |-> "Local Gas Station"]],
   labor |-> [hourlyRate |-> R(1200, 100), hoursPerSqFt |-> R(1, 1000),
              minimumHours |-> RInt(2), overtimeMultiplier |-> R(15, 10),
              skillLevel |-> "intermediate"],
   fuel |-> [pricePerGallon |-> R(350, 100), mpg |-> RInt(8), roundTripDistance |-> RInt(90)],
   businessCosts |-> [insuranceRate |-> R(2, 100), equipmentDepreciation |-> R(2500, 100),
                      permitCosts |-> Zero]]

\* DEFAULT_REGIONAL_PRICING['north-carolina']
NorthCarolinaPricing ==
  [region |-> s_North_Carolina, state |-> "NC", taxRate |-> R(475, 10000),
   materials |->
     [sealer |-> [pricePerGallon |-> R(385, 100), coverageRate |-> R(769, 100),
                  supplier |-> "SealMaster"],
      sand |-> [pricePerBag |-> R(1200, 100), bagsPerGallon |-> R(2, 100),
                supplier |-> "Local Supplier"],
      fastDry |-> [pricePerBucket |-> R(5500, 100), bucketsPerGallon |-> R(67, 10000),
                   supplier |-> "SealMaster"],
      prepSeal |-> [pricePerBucket |-> R(5500, 100), bucketsPerProject |-> RInt(1),
                    supplier |-> "SealMaster"],
      crackFiller |-> [pricePerBox |-> R(4799, 100), coveragePerBox |-> RInt(100),
                       supplier |-> "SealMaster"],
      propane |-> [pricePerTank |-> R(1200, 100), tanksPerLinearFoot |-> R(5, 1000),
                   supplier |-> "Local Gas Station"]],
   labor |-> [hourlyRate |-> R(1400, 100), hoursPerSqFt |-> R(1, 1000),
              minimumHours |-> RInt(2), overtimeMultiplier |-> R(15, 10),
              skillLevel |-> "intermediate"],
   fuel |-> [pricePerGallon |-> R(365, 100), mpg |-> RInt(8), roundTripDistance |-> RInt(80)],
   businessCosts |-> [insuranceRate |-> R(25, 1000), equipmentDepreciation |-> R(3000, 100),
                      permitCosts |-> R(2500, 100)]]

DEFAULT_REGIONAL_PRICING ==
  (s_virginia :> VirginiaPricing) @@ (s_north_carolina :> NorthCarolinaPricing)

PRICING_TIERS ==
  [residential |-> [markup |-> R(25, 100), minimumCharge |-> RInt(200)],
   commercial |->
     [markup |-> R(20, 100), minimumCharge |-> RInt(500),
      volumeDiscounts |-> << [threshold |-> RInt(5000), discount |-> R(5, 100)],
                             [threshold |-> RInt(10000), discount |-> R(10, 100)],
                             [threshold |-> RInt(25000), discount |-> R(15, 100)] >>],
   industrial |->
     [markup |-> R(15, 100), minimumCharge |-> RInt(1000),
      volumeDiscounts |-> << [threshold |-> RInt(10000), discount |-> R(5, 100)],
                             [threshold |-> RInt(25000), discount |-> R(10, 100)],
                             [threshold |-> RInt(50000), discount |-> R(20, 100)] >>]]

-----------------------------------------------------------------------------
(* JavaScript values.  undefined is its own value; an object is a record,  *)
(* a missing property reads as undefined.                                  *)

undefined == [undefined |-> TRUE]
null == [null |-> TRUE]

\* truthiness of an object-or-undefined value, as `!pricing` tests it
Truthy(v) == v # undefined /\ v # null

\* names every object inherits from Object.prototype (lower-case ones only:
\* the engine looks up lower-cased names)
OBJECT_PROTOTYPE == {s_constructor}
\* the value of such an inherited property: an object with no pricing fields
InheritedValue == [inherited |-> TRUE]

\* a lookup that falls back to the 'virginia' entry for a missing key
GetOrVirginia(obj, key) ==
  IF key \in DOMAIN obj THEN obj[key] ELSE obj[s_virginia]

\* obj[key] for an own or inherited property of a catalog object
Get(obj, key) ==
  IF key \in DOMAIN obj THEN obj[key]
  ELSE IF key \in OBJECT_PROTOTYPE THEN InheritedValue
  ELSE undefined

\* { ...a, ...b }
Spread(a, b) == [k \in DOMAIN a \cup DOMAIN b |-> IF k \in DOMAIN b THEN b[k] ELSE a[k]]

Has(obj, f) == f \in DOMAIN obj

\* obj.f as a value: undefined when the property is missing
ValueOf(obj, f) == IF Has(obj, f) THEN obj[f] ELSE undefined

\* a property used in arithmetic: undefined coerces to NaN, null to 0
NumberOf(obj, f) ==
  IF ~Has(obj, f) THEN NaN
  ELSE IF obj[f] = null THEN Zero
  ELSE obj[f]

-----------------------------------------------------------------------------
(* calculateDetailedEstimate, lines 305-443: everything after the catalog  *)
(* lookup.  pricing is the looked-up record, tier the looked-up tier (or   *)
(* undefined), d1 and d2 the two clock readings of lines 434 and 435.      *)

Throw(name, line) == [kind |-> "throw", error |-> name, line |-> line]
Return(v) == [kind |-> "return", value |-> v]

\* a filter that compares with > instead of >=
FilterDiscountsStrict(volumeDiscounts, area) ==
  SelectSeq(volumeDiscounts, LAMBDA discount : RLt(discount.threshold, area))

\* tier.volumeDiscounts.filter(discount => area >= discount.threshold)
FilterDiscounts(volumeDiscounts, area) ==
  SelectSeq(volumeDiscounts, LAMBDA discount : RGe(area, discount.threshold))

\* no sort: the entries stay in catalog order (ascending threshold)
SortDiscountsOmitted(ds) == ds

\* .sort((a, b) => b.threshold - a.threshold): stable, descending threshold
RECURSIVE SortDiscounts(_)
SortDiscounts(ds) ==
  IF ds = <<>> THEN <<>>
  ELSE LET init == SortDiscounts(SubSeq(ds, 1, Len(ds) - 1))
           x == ds[Len(ds)]
           keep == SelectSeq(init, LAMBDA e : RGe(e.threshold, x.threshold))
           rest == SelectSeq(init, LAMBDA e : RLt(e.threshold, x.threshold))
       IN  keep \o <<x>> \o rest

\* a markup that applies a volume discount to every customer type, with the
\* commercial schedule for a tier that has none
EffectiveMarkupForAll(tier, customerType, area) ==
  LET discounts == IF Has(tier, "volumeDiscounts") THEN tier.volumeDiscounts
                   ELSE PRICING_TIERS.commercial.volumeDiscounts
      sorted == SortDiscounts(FilterDiscounts(discounts, area))
  IN  IF sorted # <<>>
      THEN RMul(tier.markup, OneMinus(sorted[1].discount))
      ELSE tier.markup

\* lines 393-402
EffectiveMarkup(tier, customerType, area) ==
  IF customerType # "residential"
  THEN LET sorted == SortDiscounts(FilterDiscounts(tier.volumeDiscounts, area))
       IN  IF sorted # <<>>
           THEN RMul(tier.markup, OneMinus(sorted[1].discount))
           ELSE tier.markup
  ELSE tier.markup

ThirtyDaysMs == BigMul(BigFromInt(30 * 24 * 60 * 60), BigFromInt(1000))

\* lines 307-349
Materials(pricing, area) ==
  LET m == pricing.materials
      \* ceil(sqrt(area) * 4 / c) = ceil(sqrt(16 * area / c^2))
      perimeterSq == RMul(RInt(16), area)
      sealerGallons == RDiv(area, m.sealer.coverageRate)
      sandQty == MathCeil(RMul(sealerGallons, m.sand.bagsPerGallon))
      fastDryQty == MathCeil(RMul(sealerGallons, m.fastDry.bucketsPerGallon))
      crackQty == CeilSqrt(RDiv(perimeterSq, RMul(m.crackFiller.coveragePerBox,
                                                  m.crackFiller.coveragePerBox)))
      propaneQty == CeilSqrt(RMul(perimeterSq, RMul(m.propane.tanksPerLinearFoot,
                                                    m.propane.tanksPerLinearFoot)))
  IN  [sealer |-> [quantity |-> sealerGallons, unitCost |-> m.sealer.pricePerGallon,
                   totalCost |-> RMul(sealerGallons, m.sealer.pricePerGallon),
                   supplier |-> m.sealer.supplier],
       sand |-> [quantity |-> sandQty, unitCost |-> m.sand.pricePerBag,
                 totalCost |-> RMul(sandQty, m.sand.pricePerBag),
                 supplier |-> m.sand.supplier],
       fastDry |-> [quantity |-> fastDryQty, unitCost |-> m.fastDry.pricePerBucket,
                    totalCost |-> RMul(fastDryQty, m.fastDry.pricePerBucket),
                    supplier |-> m.fastDry.supplier],
       prepSeal |-> [quantity |-> m.prepSeal.bucketsPerProject,
                     unitCost |-> m.prepSeal.pricePerBucket,
                     totalCost |-> RMul(m.prepSeal.bucketsPerProject, m.prepSeal.pricePerBucket),
                     supplier |-> m.prepSeal.supplier],
       crackFiller |-> [quantity |-> crackQty, unitCost |-> m.crackFiller.pricePerBox,
                        totalCost |-> RMul(crackQty, m.crackFiller.pricePerBox),
                        supplier |-> m.crackFiller.supplier],
       propane |-> [quantity |-> propaneQty, unitCost |-> m.propane.pricePerTank,
                    totalCost |-> RMul(propaneQty, m.propane.pricePerTank),
                    supplier |-> m.propane.supplier]]

\* labor whose rates are read from the default 'virginia' record instead of
\* the record selected for the estimate
LaborOfDefault(pricing, area) ==
  LET laborHours == MathMax(RMul(area, VirginiaPricing.labor.hoursPerSqFt),
                            VirginiaPricing.labor.minimumHours)
  IN  [hours |-> laborHours, rate |-> VirginiaPricing.labor.hourlyRate,
       totalCost |-> RMul(laborHours, VirginiaPricing.labor.hourlyRate),
       skillLevel |-> VirginiaPricing.labor.skillLevel]

\* labor whose hours are rounded up to whole hours
LaborRounded(pricing, area) ==
  LET laborHours == MathCeil(MathMax(RMul(area, pricing.labor.hoursPerSqFt),
                                     pricing.labor.minimumHours))
  IN  [hours |-> laborHours, rate |-> pricing.labor.hourlyRate,
       totalCost |-> RMul(laborHours, pricing.labor.hourlyRate),
       skillLevel |-> pricing.labor.skillLevel]

\* lines 351-361
Labor(pricing, area) ==
  LET laborHours == MathMax(RMul(area, pricing.labor.hoursPerSqFt), pricing.labor.minimumHours)
  IN  [hours |-> laborHours, rate |-> pricing.labor.hourlyRate,
       totalCost |-> RMul(laborHours, pricing.labor.hourlyRate),
       skillLevel |-> pricing.labor.skillLevel]

\* line 365: Object.values(materials).reduce((sum, mat) => sum + mat.totalCost, 0) + labor.totalCost
SubtotalForExpenses(materials, labor) ==
  RAdd(RAdd(RAdd(RAdd(RAdd(RAdd(RAdd(Zero, materials.sealer.totalCost),
                                     materials.sand.totalCost),
                                materials.fastDry.totalCost),
                           materials.prepSeal.totalCost),
                      materials.crackFiller.totalCost),
                 materials.propane.totalCost),
       labor.totalCost)

\* expenses whose insurance base includes fuel, equipment and permits
ExpensesInsuranceOnAll(pricing, subtotalForExpenses) ==
  LET fuelGallons == RDiv(pricing.fuel.roundTripDistance, pricing.fuel.mpg)
      fuelCost == RMul(fuelGallons, pricing.fuel.pricePerGallon)
      base == RAdd(RAdd(RAdd(subtotalForExpenses, fuelCost),
                        pricing.businessCosts.equipmentDepreciation),
                   pricing.businessCosts.permitCosts)
  IN  [fuel |-> [distance |-> pricing.fuel.roundTripDistance,
                 rate |-> pricing.fuel.pricePerGallon,
                 totalCost |-> fuelCost],
       insurance |-> [rate |-> pricing.businessCosts.insuranceRate,
                      totalCost |-> RMul(base, pricing.businessCosts.insuranceRate)],
       equipment |-> [totalCost |-> pricing.businessCosts.equipmentDepreciation],
       permits |-> [totalCost |-> pricing.businessCosts.permitCosts]]

\* lines 363-383
Expenses(pricing, subtotalForExpenses) ==
  LET fuelGallons == RDiv(pricing.fuel.roundTripDistance, pricing.fuel.mpg)
  IN  [fuel |-> [distance |-> pricing.fuel.roundTripDistance,
                 rate |-> pricing.fuel.pricePerGallon,
                 totalCost |-> RMul(fuelGallons, pricing.fuel.pricePerGallon)],
       insurance |-> [rate |-> pricing.businessCosts.insuranceRate,
                      totalCost |-> RMul(subtotalForExpenses,
                                         pricing.businessCosts.insuranceRate)],
       equipment |-> [totalCost |-> pricing.businessCosts.equipmentDepreciation],
       permits |-> [totalCost |-> pricing.businessCosts.permitCosts]]

\* a subtotal that leaves the permit costs out
SubtotalWithoutPermits(subtotalForExpenses, expenses) ==
  RAdd(RAdd(RAdd(subtotalForExpenses, expenses.fuel.totalCost),
            expenses.insurance.totalCost),
       expenses.equipment.totalCost)

\* lines 385-390
Subtotal(subtotalForExpenses, expenses) ==
  RAdd(RAdd(RAdd(RAdd(subtotalForExpenses, expenses.fuel.totalCost),
                 expenses.insurance.totalCost),
            expenses.equipment.totalCost),
       expenses.permits.totalCost)

\* the pricing with the minimum charge enforced before tax: the floor is
\* applied to beforeTax and the tax is computed on the floored amount
PricingDetailsFloorFirst(pricing, tier, subtotal, effectiveMarkup, area) ==
  LET markupAmount == RMul(subtotal, effectiveMarkup)
      beforeTax == MathMax(RAdd(subtotal, markupAmount), tier.minimumCharge)
      taxAmount == RMul(beforeTax, NumberOf(pricing, "taxRate"))
      finalTotal == RAdd(beforeTax, taxAmount)
  IN  [subtotal |-> subtotal, markup |-> effectiveMarkup, markupAmount |-> markupAmount,
       beforeTax |-> beforeTax, taxRate |-> ValueOf(pricing, "taxRate"),
       taxAmount |-> taxAmount, finalTotal |-> finalTotal,
       pricePerSqFt |-> RDiv(finalTotal, area)]

\* the pricing with the tax applied before markup: the tax base is the subtotal
PricingDetailsTaxOnSubtotal(pricing, tier, subtotal, effectiveMarkup, area) ==
  LET markupAmount == RMul(subtotal, effectiveMarkup)
      beforeTax == RAdd(subtotal, markupAmount)
      taxAmount == RMul(subtotal, NumberOf(pricing, "taxRate"))
      finalTotal == MathMax(RAdd(beforeTax, taxAmount), tier.minimumCharge)
  IN  [subtotal |-> subtotal, markup |-> effectiveMarkup, markupAmount |-> markupAmount,
       beforeTax |-> beforeTax, taxRate |-> ValueOf(pricing, "taxRate"),
       taxAmount |-> taxAmount, finalTotal |-> finalTotal,
       pricePerSqFt |-> RDiv(finalTotal, area)]

\* lines 404-419
PricingDetails(pricing, tier, subtotal, effectiveMarkup, area) ==
  LET markupAmount == RMul(subtotal, effectiveMarkup)
      beforeTax == RAdd(subtotal, markupAmount)
      taxAmount == RMul(beforeTax, NumberOf(pricing, "taxRate"))
      finalTotal == MathMax(RAdd(beforeTax, taxAmount), tier.minimumCharge)
  IN  [subtotal |-> subtotal, markup |-> effectiveMarkup, markupAmount |-> markupAmount,
       beforeTax |-> beforeTax, taxRate |-> ValueOf(pricing, "taxRate"),
       taxAmount |-> taxAmount, finalTotal |-> finalTotal,
       pricePerSqFt |-> RDiv(finalTotal, area)]

\* a profit analysis whose margin is computed against the subtotal
ProfitAnalysisOnSubtotal(pricingDetails) ==
  [grossProfit |-> pricingDetails.markupAmount,
   profitMargin |-> RMul(RDiv(pricingDetails.markupAmount, pricingDetails.subtotal),
                         RInt(100)),
   breakEvenPoint |-> pricingDetails.subtotal]

\* lines 421-426
ProfitAnalysis(pricingDetails) ==
  [grossProfit |-> pricingDetails.markupAmount,
   profitMargin |-> RMul(RDiv(pricingDetails.markupAmount, pricingDetails.finalTotal),
                         RInt(100)),
   breakEvenPoint |-> pricingDetails.subtotal]

\* lines 404-442: the pricing, the profit analysis and the returned object
EstimateFromExpenses(pricing, tier, area, customerType, materials, labor, subtotalForExpenses, expenses) ==
  Return([materials |-> materials,
          labor |-> labor,
          expenses |-> expenses,
          pricing |-> PricingDetails(pricing, tier,
                                     Subtotal(subtotalForExpenses, expenses),
                                     EffectiveMarkup(tier, customerType, area), area),
          profitAnalysis |->
            ProfitAnalysis(PricingDetails(pricing, tier,
                                          Subtotal(subtotalForExpenses, expenses),
                                          EffectiveMarkup(tier, customerType, area), area))])

\* lines 363-383 onwards
EstimateFromSubtotal(pricing, tier, area, customerType, materials, labor, subtotalForExpenses) ==
  EstimateFromExpenses(pricing, tier, area, customerType, materials, labor,
                       subtotalForExpenses, Expenses(pricing, subtotalForExpenses))

\* line 365 onwards
EstimateFromMaterials(pricing, tier, area, customerType, materials, labor) ==
  EstimateFromSubtotal(pricing, tier, area, customerType, materials, labor,
                       SubtotalForExpenses(materials, labor))

\* lines 305-426: the estimate without its projectInfo
EstimateBody(pricing, tier, area, customerType) ==
  IF ~Has(pricing, "materials") THEN Throw("TypeError", 311)
  ELSE IF ~Has(pricing, "labor") THEN Throw("TypeError", 353)
  ELSE IF ~Has(pricing, "fuel") THEN Throw("TypeError", 364)
  ELSE IF ~Has(pricing, "businessCosts") THEN Throw("TypeError", 374)
  ELSE IF tier = undefined THEN Throw("TypeError", 393)
  ELSE EstimateFromMaterials(pricing, tier, area, customerType,
                             Materials(pricing, area), Labor(pricing, area))

-----------------------------------------------------------------------------
(* Inputs of the model.                                                    *)

\* denominator of the smallest positive area tried (1 / AreaDen sq ft)
AreaDen == 100
\* the clock (ms since the engine was built) is read up to MaxClock
MaxClock == 2

\* pricing records a caller passes to updateRegionalPricing / puts in a document
TexasPricing ==
  [region |-> s_Texas, state |-> "TX", taxRate |-> R(625, 10000),
   materials |->
     [sealer |-> [pricePerGallon |-> R(400, 100), coverageRate |-> RInt(8),
                  supplier |-> "SealMaster"],
      sand |-> [pricePerBag |-> R(900, 100), bagsPerGallon |-> R(3, 100),
                supplier |-> "Lone Star Sand"],
      fastDry |-> [pricePerBucket |-> R(4500, 100), bucketsPerGallon |-> R(1, 100),
                   supplier |-> "SealMaster"],
      prepSeal |-> [pricePerBucket |-> R(4800, 100), bucketsPerProject |-> RInt(2),
                    supplier |-> "SealMaster"],
      crackFiller |-> [pricePerBox |-> R(4250, 100), coveragePerBox |-> RInt(80),
                       supplier |-> "SealMaster"],
      propane |-> [pricePerTank |-> R(1100, 100), tanksPerLinearFoot |-> R(1, 100),
                   supplier |-> "Gas Depot"]],
   labor |-> [hourlyRate |-> R(1800, 100), hoursPerSqFt |-> R(2, 1000),
              minimumHours |-> RInt(3), overtimeMultiplier |-> R(15, 10),
              skillLevel |-> "expert"],
   fuel |-> [pricePerGallon |-> R(320, 100), mpg |-> RInt(10), roundTripDistance |-> RInt(50)],
   businessCosts |-> [insuranceRate |-> R(3, 100), equipmentDepreciation |-> R(2000, 100),
                      permitCosts |-> R(4000, 100)]]

\* a later version of the same region: other material prices, labor, fuel, costs and tax
TexasPricingV2 ==
  [region |-> s_Texas, state |-> "TX", taxRate |-> R(825, 10000),
   materials |->
     [sealer |-> [pricePerGallon |-> R(450, 100), coverageRate |-> RInt(8),
                  supplier |-> "SealMaster"],
      sand |-> [pricePerBag |-> R(950, 100), bagsPerGallon |-> R(3, 100),
                supplier |-> "Lone Star Sand"],
      fastDry |-> [pricePerBucket |-> R(4700, 100), bucketsPerGallon |-> R(1, 100),
                   supplier |-> "SealMaster"],
      prepSeal |-> [pricePerBucket |-> R(4900, 100), bucketsPerProject |-> RInt(2),
                    supplier |-> "SealMaster"],
      crackFiller |-> [pricePerBox |-> R(4300, 100), coveragePerBox |-> RInt(80),
                       supplier |-> "SealMaster"],
      propane |-> [pricePerTank |-> R(1150, 100), tanksPerLinearFoot |-> R(1, 100),
                   supplier |-> "Gas Depot"]],
   labor |-> [hourlyRate |-> R(2100, 100), hoursPerSqFt |-> R(2, 1000),
              minimumHours |-> RInt(4), overtimeMultiplier |-> R(15, 10),
              skillLevel |-> "expert"],
   fuel |-> [pricePerGallon |-> R(340, 100), mpg |-> RInt(12), roundTripDistance |-> RInt(60)],
   businessCosts |-> [insuranceRate |-> R(35, 1000), equipmentDepreciation |-> R(2200, 100),
                      permitCosts |-> R(4500, 100)]]

\* a record whose tax rate is not a number (a rate parsed from an empty field)
TexasPricingNaN == [TexasPricing EXCEPT !.taxRate = NaN]

\* a region entry of a document that lacks the required materials and labor fields
IncompletePricing ==
  [region |-> s_Virginia, state |-> "VA", taxRate |-> R(6, 100),
   fuel |-> [pricePerGallon |-> R(350, 100), mpg |-> RInt(8), roundTripDistance |-> RInt(90)],
   businessCosts |-> [insuranceRate |-> R(2, 100), equipmentDepreciation |-> R(2500, 100),
                      permitCosts |-> Zero]]

\* a region entry of a document that lacks the required taxRate field only
OhioPricingNoTaxRate ==
  [f \in {"region", "state", "materials", "labor", "fuel", "businessCosts"} |->
     IF f = "region" THEN s_ohio ELSE IF f = "state" THEN "OH" ELSE TexasPricing[f]]

\* the fields the RegionalPricing interface requires (lines 45-61)
RegionalPricingFields ==
  {"region", "state", "taxRate", "materials", "labor", "fuel", "businessCosts"}
IsRegionalPricing(v) == RegionalPricingFields \subseteq DOMAIN v

\* The texts given to importRegionalPricing, each by what JSON.parse makes of
\* it: a SyntaxError, or the object the text denotes.
ImportTexts ==
  { [name |-> "not json", parses |-> FALSE],
    [name |-> "texas v2", parses |-> TRUE,
     value |-> (s_texas :> TexasPricingV2)],
    [name |-> "ohio and incomplete virginia", parses |-> TRUE,
     value |-> (s_ohio :> [TexasPricing EXCEPT !.region = s_ohio, !.state = "OH"])
               @@ (s_virginia :> IncompletePricing)],
    [name |-> "upper-case key", parses |-> TRUE,
     value |-> (s_TEXAS :> TexasPricing)],
    [name |-> "ohio without taxRate", parses |-> TRUE,
     value |-> (s_ohio :> OhioPricingNoTaxRate)] }

UpdateRegions == {s_Texas, s_texas}
UpdatePricings == {TexasPricing, TexasPricingV2}

EngineRegions == {s_virginia, s_Virginia, s_texas, s_TEXAS, s_ohio, s_constructor}
EngineCustomerTypes == {"residential", "commercial", "government"}
EngineAreas == {Zero, RInt(1000)}

Thresholds == {5000, 10000, 25000, 50000}
CalcAreas ==
  {Zero, R(1, AreaDen), RInt(1), RInt(1000), RInt(12000)}
    \cup {RInt(t - 1) : t \in Thresholds}
    \cup {RInt(t) : t \in Thresholds}
    \cup {RInt(t + 1) : t \in Thresholds}
CalcRegions == {s_virginia, s_north_carolina, s_texas}
CalcCustomerTypes == {"residential", "commercial", "industrial"}

JobTypes == {"driveway"}
Addresses == {"12 Main St"}

-----------------------------------------------------------------------------
(* The state.                                                              *)

VARIABLES
  regionalPricing,   \* this.regionalPricing: lower-case key -> record
  pricingTiers,      \* this.pricingTiers
  clock,             \* Date.now(), ms since the engine was built
  last,              \* the last engine operation and its arguments
  result,            \* what that operation returned or threw
  estimates,         \* the rows of table estimates
  projects,          \* the rows of table projects, by id
  saves,             \* the saveEstimate calls, by caller
  kept               \* the estimate a caller still holds from an earlier call

engineVars == <<regionalPricing, pricingTiers, clock, last, result>>
dbVars == <<estimates, projects, saves>>
vars == <<regionalPricing, pricingTiers, clock, last, result, estimates, projects, saves, kept>>

\* EstimateBody of the pricing records and areas of the model, evaluated once
MemoPricings ==
  {VirginiaPricing, NorthCarolinaPricing, TexasPricing, TexasPricingV2,
   [TexasPricing EXCEPT !.region = s_ohio, !.state = "OH"], OhioPricingNoTaxRate,
   TexasPricingNaN, [TexasPricing EXCEPT !.taxRate = null]}
EstimateMemo ==
  [mp \in MemoPricings, mc \in CalcCustomerTypes, ma \in CalcAreas \cup EngineAreas |->
     EstimateBody(mp, PRICING_TIERS[mc], ma, mc)]

EstimateBodyOf(pricing, tier, area, customerType) ==
  IF <<pricing, customerType, area>> \in DOMAIN EstimateMemo
     /\ tier = PRICING_TIERS[customerType]
  THEN EstimateMemo[pricing, customerType, area]
  ELSE EstimateBody(pricing, tier, area, customerType)

\* a returned object that also carries an estimate number taken from the clock
WithProjectInfoNumbered(body, pricing, area, jobType, address, d1, d2) ==
  IF body.kind = "throw" THEN body
  ELSE Return([projectInfo |-> [area |-> area, jobType |-> jobType,
                                address |-> address,
                                region |-> IF Has(pricing, "region") THEN pricing.region
                                           ELSE undefined,
                                estimateNumber |-> BigFromInt(d1),
                                estimateDate |-> BigFromInt(d1),
                                validUntil |-> BigAdd(BigFromInt(d2), ThirtyDaysMs)],
               materials |-> body.value.materials,
               labor |-> body.value.labor,
               expenses |-> body.value.expenses,
               pricing |-> body.value.pricing,
               profitAnalysis |-> body.value.profitAnalysis])

\* lines 428-442: the returned object, with the projectInfo; d1 and d2 are the
\* clock readings of lines 434 and 435
WithProjectInfo(body, pricing, area, jobType, address, d1, d2) ==
  IF body.kind = "throw" THEN body
  ELSE Return([projectInfo |-> [area |-> area, jobType |-> jobType,
                                address |-> address,
                                region |-> IF Has(pricing, "region") THEN pricing.region
                                           ELSE undefined,
                                estimateDate |-> BigFromInt(d1),
                                validUntil |-> BigAdd(BigFromInt(d2), ThirtyDaysMs)],
               materials |-> body.value.materials,
               labor |-> body.value.labor,
               expenses |-> body.value.expenses,
               pricing |-> body.value.pricing,
               profitAnalysis |-> body.value.profitAnalysis])

\* lines 305-443
DetailedEstimate(pricing, tier, area, jobType, address, customerType, d1, d2) ==
  WithProjectInfo(EstimateBodyOf(pricing, tier, area, customerType),
                  pricing, area, jobType, address, d1, d2)

-----------------------------------------------------------------------------
(* The engine's operations.  JavaScript runs each call to completion, so   *)
(* each is one step.                                                       *)

\* lines 274-277
EngineInit ==
  /\ regionalPricing = DEFAULT_REGIONAL_PRICING
  /\ pricingTiers = PRICING_TIERS
  /\ clock = 0
  /\ last = [op |-> "constructor"]
  /\ result = Return(undefined)

\* lines 279-283
updateRegionalPricing(region, pricing) ==
  /\ regionalPricing' = Spread(regionalPricing, toLowerCase(region) :> pricing)
  /\ last' = [op |-> "updateRegionalPricing", region |-> region, pricing |-> pricing]
  /\ result' = Return(undefined)
  /\ UNCHANGED <<pricingTiers, clock>>

\* lines 286-290: the region names of the records, one for each key of the
\* catalog (the array is modelled by the set of its elements)
getAvailableRegions ==
  /\ last' = [op |-> "getAvailableRegions"]
  /\ result' = Return({ValueOf(regionalPricing[key], "region") : key \in DOMAIN regionalPricing})
  /\ UNCHANGED <<regionalPricing, pricingTiers, clock>>

\* a parser that reads text it cannot parse as the empty object
JSONParseLenient(jsonData) ==
  IF jsonData.parses THEN Return(jsonData.value) ELSE Return(<<>>)

\* JSON.parse(jsonData)
JSONParse(jsonData) ==
  IF jsonData.parses THEN Return(jsonData.value) ELSE Throw("SyntaxError", 500)

\* lines 497-507
importRegionalPricing(jsonData) ==
  LET imported == JSONParse(jsonData)
  IN  /\ IF imported.kind = "throw"
         THEN /\ result' = imported
              /\ UNCHANGED regionalPricing
         ELSE /\ regionalPricing' = Spread(regionalPricing, imported.value)
              /\ result' = Return(undefined)
      /\ last' = [op |-> "importRegionalPricing", jsonData |-> jsonData]
      /\ UNCHANGED <<pricingTiers, clock>>

\* the tiers after an estimate whose discount lookup sorted the tier's own
\* volumeDiscounts array in place
TiersSortedInPlace(tiers, customerType) ==
  IF customerType # "residential" /\ Has(tiers, customerType)
  THEN [tiers EXCEPT ![customerType].volumeDiscounts = SortDiscounts(@)]
  ELSE tiers

\* lines 395-397: the tiers after an estimate.  Array.prototype.sort orders
\* its receiver in place, and the receiver is the new array that filter
\* returned, not the tier's volumeDiscounts
TiersAfterEstimate(tiers, customerType) == tiers

\* lines 293-443
calculateDetailedEstimate(area, jobType, address, region, customerType) ==
  LET pricing == Get(regionalPricing, toLowerCase(region))
      tier == IF Has(pricingTiers, customerType) THEN pricingTiers[customerType]
              ELSE undefined
  IN  /\ last' = [op |-> "calculateDetailedEstimate", area |-> area, jobType |-> jobType,
                  address |-> address, region |-> region, customerType |-> customerType]
      /\ IF ~Truthy(pricing)
         THEN /\ result' = Throw("Error", 302)
              /\ UNCHANGED clock
         ELSE \E e1, e2 \in 0..1 :
                /\ clock + e1 + e2 <= MaxClock
                /\ clock' = clock + e1 + e2
                /\ result' = DetailedEstimate(pricing, tier, area, jobType, address,
                                              customerType, clock + e1, clock + e1 + e2)
      /\ pricingTiers' = TiersAfterEstimate(pricingTiers, customerType)
      /\ UNCHANGED regionalPricing

\* lines 449-489: the object calculateQuickEstimate builds from the detailed
\* estimate
QuickEstimate(detailed, area) ==
  IF detailed.kind = "throw" THEN detailed
  ELSE LET d == detailed.value
       IN  Return([area |-> area,
                   materials |->
                     [sealer |-> [gallons |-> d.materials.sealer.quantity,
                                  cost |-> d.materials.sealer.totalCost],
                      sand |-> [bags |-> d.materials.sand.quantity,
                                cost |-> d.materials.sand.totalCost],
                      fastDry |-> [buckets |-> d.materials.fastDry.quantity,
                                   cost |-> d.materials.fastDry.totalCost],
                      prepSeal |-> [buckets |-> d.materials.prepSeal.quantity,
                                    cost |-> d.materials.prepSeal.totalCost],
                      crackFiller |-> [boxes |-> d.materials.crackFiller.quantity,
                                       cost |-> d.materials.crackFiller.totalCost],
                      propane |-> [tanks |-> d.materials.propane.quantity,
                                   cost |-> d.materials.propane.totalCost]],
                   labor |-> [hours |-> d.labor.hours, cost |-> d.labor.totalCost],
                   fuel |-> [distance |-> d.expenses.fuel.distance,
                             cost |-> d.expenses.fuel.totalCost],
                   subtotal |-> d.pricing.subtotal,
                   markup25 |-> d.pricing.beforeTax,
                   roundedUp |-> RMul(MathCeil(RDiv(d.pricing.beforeTax, RInt(10))), RInt(10)),
                   finalTotal |-> d.pricing.finalTotal])

\* lines 446-490: the detailed estimate for a 'driveway' at address '' with
\* the default customer type 'residential', reshaped
calculateQuickEstimate(area, region) ==
  LET pricing == Get(regionalPricing, toLowerCase(region))
      tier == IF Has(pricingTiers, "residential") THEN pricingTiers["residential"]
              ELSE undefined
  IN  /\ last' = [op |-> "calculateQuickEstimate", area |-> area, region |-> region]
      /\ IF ~Truthy(pricing)
         THEN /\ result' = Throw("Error", 302)
              /\ UNCHANGED clock
         ELSE \E e1, e2 \in 0..1 :
                /\ clock + e1 + e2 <= MaxClock
                /\ clock' = clock + e1 + e2
                /\ result' = QuickEstimate(DetailedEstimate(pricing, tier, area, "driveway", "",
                                                            "residential", clock + e1,
                                                            clock + e1 + e2),
                                           area)
      /\ pricingTiers' = TiersAfterEstimate(pricingTiers, "residential")
      /\ UNCHANGED regionalPricing

\* JSON.stringify of a number or null: a number that is not finite is written
\* as null
JSONNumber(x) == IF x = null THEN null ELSE IF IsFinite(x) THEN x ELSE null

\* JSON.stringify of an object whose properties are numbers, but for the
\* string properties named in strings
JSONNumbers(obj, strings) ==
  [f \in DOMAIN obj |-> IF f \in strings THEN obj[f] ELSE JSONNumber(obj[f])]

\* JSON.stringify of a RegionalPricing record, property by property
JSONPricing(p) ==
  [f \in DOMAIN p |->
     IF f \in {"region", "state"} THEN p[f]
     ELSE IF f = "taxRate" THEN JSONNumber(p[f])
     ELSE IF f = "materials"
       THEN [k \in DOMAIN p[f] |-> JSONNumbers(p[f][k], {"supplier"})]
     ELSE JSONNumbers(p[f], {"skillLevel"})]

\* JSON.stringify(this.regionalPricing, null, 2): the text, by the value that
\* JSON.parse makes of it
JSONStringify(catalog) ==
  [name |-> "export", parses |-> TRUE,
   value |-> [k \in DOMAIN catalog |-> JSONPricing(catalog[k])]]

\* lines 492-495
exportRegionalPricing ==
  /\ result' = Return(JSONStringify(regionalPricing))
  /\ last' = [op |-> "exportRegionalPricing"]
  /\ UNCHANGED <<regionalPricing, pricingTiers, clock>>

\* lines 274-277 and 497-507: a fresh engine is built and imports the text
\* that the engine before it exported
FreshEngineImport ==
  /\ last.op = "exportRegionalPricing"
  /\ regionalPricing' = Spread(DEFAULT_REGIONAL_PRICING, JSONParse(result.value).value)
  /\ pricingTiers' = PRICING_TIERS
  /\ last' = [op |-> "importRegionalPricing", jsonData |-> result.value, fresh |-> TRUE]
  /\ result' = Return(undefined)
  /\ UNCHANGED clock

-----------------------------------------------------------------------------
(* DatabaseService.saveEstimate (src/unnamed/part_009, lines 254-315).     *)
(* Every await is a point where other callers' requests may run: each      *)
(* request to the store is one step.  A request may also fail; the code    *)
(* looks at the error of the insert and of updateProject only.             *)

\* rows of table estimates that are ever inserted
MaxEstimates == 3

\* the callers that may run saveEstimate at the same time
Callers == {"c1", "c2"}
ProjectIds == {"p1", "p2"}
FinalTotals == {RInt(500)}

Idle == [pc |-> "idle"]

\* supabase/migrations/001_initial_schema.sql, lines 17-33 and 35-44
DbInit ==
  /\ estimates = {}
  /\ projects = [id \in ProjectIds |-> [status |-> "draft", estimated_cost |-> null]]
  /\ saves = [c \in Callers |-> Idle]

RowsOf(project_id) == {e \in estimates : e.project_id = project_id}

\* select('version').eq('project_id', ..).order('version', {ascending: false}).limit(1)
SelectTopVersion(project_id) ==
  LET rows == RowsOf(project_id)
  IN  IF rows = {} THEN <<>>
      ELSE << [version |-> CHOOSE v \in {e.version : e \in rows} :
                             \A e \in rows : e.version <= v] >>

\* lines 267-269; hasData is whether the read returned data (existingEstimates
\* is null when it failed)
NextVersion(hasData, existingEstimates) ==
  IF hasData /\ Len(existingEstimates) > 0
  THEN existingEstimates[1].version + 1
  ELSE 1

\* line 254: the call is made
SaveEstimateCall(c, project_id, is_current, finalTotal) ==
  /\ saves[c].pc = "idle"
  /\ Cardinality(estimates)
       + Cardinality({k \in Callers : saves[k].pc \notin {"idle", "updateProject", "log"}})
       < MaxEstimates
  /\ saves' = [saves EXCEPT ![c] =
                 [pc |-> "getUser", project_id |-> project_id, is_current |-> is_current,
                  finalTotal |-> finalTotal]]
  /\ UNCHANGED <<estimates, projects>>

\* line 254: the call is made; the caller also notes the rows that the
\* project has at this moment
SaveEstimateCallRecorded(c, project_id, is_current, finalTotal) ==
  /\ saves[c].pc = "idle"
  /\ Cardinality(estimates) < MaxEstimates
  /\ saves' = [saves EXCEPT ![c] =
                 [pc |-> "getUser", project_id |-> project_id, is_current |-> is_current,
                  finalTotal |-> finalTotal, before |-> RowsOf(project_id)]]
  /\ UNCHANGED <<estimates, projects>>

\* lines 256-257 and 569-572
SaveEstimateGetUser(c) ==
  /\ saves[c].pc = "getUser"
  /\ \E user \in {"u1", "none"} :
       saves' = [saves EXCEPT ![c] =
                   IF user = "none"
                   THEN [pc |-> "idle", outcome |-> Throw("Error", 257),
                         project_id |-> saves[c].project_id,
                         is_current |-> saves[c].is_current]
                   ELSE [saves[c] EXCEPT !.pc = "select"] @@ [user_id |-> user]]
  /\ UNCHANGED <<estimates, projects>>

\* lines 259-269: the read of the highest version (no data when the request fails)
SaveEstimateSelect(c) ==
  /\ saves[c].pc = "select"
  /\ \E ok \in BOOLEAN :
       LET existingEstimates == IF ok THEN SelectTopVersion(saves[c].project_id) ELSE <<>>
       IN  saves' = [saves EXCEPT ![c] =
                       [saves[c] EXCEPT !.pc = IF saves[c].is_current THEN "clear" ELSE "insert"]
                         @@ [nextVersion |-> NextVersion(ok, existingEstimates)]]
  /\ UNCHANGED <<estimates, projects>>

\* lines 271-277: the update's error is not looked at
SaveEstimateClearCurrent(c) ==
  /\ saves[c].pc = "clear"
  /\ \E ok \in BOOLEAN :
       estimates' = IF ok
                    THEN {IF e.project_id = saves[c].project_id
                          THEN [e EXCEPT !.is_current = FALSE] ELSE e : e \in estimates}
                    ELSE estimates
  /\ saves' = [saves EXCEPT ![c].pc = "insert"]
  /\ UNCHANGED projects

\* lines 279-289
SaveEstimateInsert(c) ==
  /\ saves[c].pc = "insert"
  /\ \E ok \in BOOLEAN :
       IF ok
       THEN LET row == [id |-> Cardinality(estimates) + 1,
                        project_id |-> saves[c].project_id,
                        version |-> saves[c].nextVersion,
                        is_current |-> saves[c].is_current,
                        user_id |-> saves[c].user_id,
                        finalTotal |-> saves[c].finalTotal]
            IN  /\ estimates' = estimates \cup {row}
                /\ saves' = [saves EXCEPT ![c] =
                               [saves[c] EXCEPT !.pc = IF saves[c].is_current
                                                       THEN "updateProject" ELSE "log"]
                                 @@ [data |-> row]]
       ELSE /\ saves' = [saves EXCEPT ![c] =
                           [pc |-> "idle", outcome |-> Throw("PostgrestError", 289),
                            project_id |-> saves[c].project_id,
                            is_current |-> saves[c].is_current]]
            /\ UNCHANGED estimates
  /\ UNCHANGED projects

\* lines 291-297 and 167-188
SaveEstimateUpdateProject(c) ==
  /\ saves[c].pc = "updateProject"
  /\ \E ok \in BOOLEAN :
       IF ok
       THEN /\ projects' = [projects EXCEPT ![saves[c].project_id] =
                              [status |-> "estimated",
                               estimated_cost |-> saves[c].finalTotal]]
            /\ saves' = [saves EXCEPT ![c].pc = "log"]
       ELSE /\ saves' = [saves EXCEPT ![c] =
                           [pc |-> "idle", outcome |-> Throw("PostgrestError", 179),
                            project_id |-> saves[c].project_id,
                            is_current |-> saves[c].is_current]]
            /\ UNCHANGED projects
  /\ UNCHANGED estimates

\* lines 299-310: logActivity swallows its errors; the inserted row is returned
SaveEstimateReturn(c) ==
  /\ saves[c].pc = "log"
  /\ saves' = [saves EXCEPT ![c] =
                 [pc |-> "idle", outcome |-> Return(saves[c].data),
                  project_id |-> saves[c].project_id,
                  is_current |-> saves[c].is_current]]
  /\ UNCHANGED <<estimates, projects>>

-----------------------------------------------------------------------------
(* The legacy estimate of the measurement sidebar                          *)
(* (src/components/MeasurementSidebar.tsx, lines 44-99).                    *)

\* a sidebar estimate whose markup is applied once: finalTotal is roundedUp
SidebarEstimateSingleMarkup(area) ==
  LET sealerGallons == RMul(area, R(13, 100))
      sealerCost == RMul(sealerGallons, R(365, 100))
      sandBags == MathCeil(RDiv(sealerGallons, RInt(50)))
      sandCost == RMul(sandBags, RInt(10))
      fastDryBuckets == MathCeil(RDiv(sealerGallons, RInt(150)))
      fastDryCost == RMul(fastDryBuckets, RInt(50))
      prepSealBuckets == One
      prepSealCost == RMul(prepSealBuckets, RInt(50))
      crackFillerBoxes == CeilSqrt(RDiv(RMul(RInt(16), area), RInt(100 * 100)))
      crackFillerCost == RMul(crackFillerBoxes, R(4499, 100))
      propaneTanks == CeilSqrt(RDiv(RMul(RInt(16), area), RInt(200 * 200)))
      propaneCost == RMul(propaneTanks, RInt(10))
      laborHours == MathCeil(RDiv(area, RInt(1000)))
      laborCost == RMul(laborHours, RInt(12))
      roundTripDistance == RMul(RInt(45), RInt(2))
      fuelCost == RMul(RDiv(roundTripDistance, RInt(8)), R(350, 100))
      subtotal == RAdd(RAdd(RAdd(RAdd(RAdd(RAdd(RAdd(sealerCost, sandCost), fastDryCost),
                                           prepSealCost),
                                      crackFillerCost),
                                 propaneCost),
                            laborCost),
                       fuelCost)
      markup25 == RMul(subtotal, R(125, 100))
      roundedUp == RMul(MathCeil(RDiv(markup25, RInt(10))), RInt(10))
  IN  [area |-> area,
       materials |-> [sealer |-> [gallons |-> sealerGallons, cost |-> sealerCost],
                      sand |-> [bags |-> sandBags, cost |-> sandCost],
                      fastDry |-> [buckets |-> fastDryBuckets, cost |-> fastDryCost],
                      prepSeal |-> [buckets |-> prepSealBuckets, cost |-> prepSealCost],
                      crackFiller |-> [boxes |-> crackFillerBoxes, cost |-> crackFillerCost],
                      propane |-> [tanks |-> propaneTanks, cost |-> propaneCost]],
       labor |-> [hours |-> laborHours, cost |-> laborCost],
       fuel |-> [distance |-> roundTripDistance, cost |-> fuelCost],
       subtotal |-> subtotal, markup25 |-> markup25, roundedUp |-> roundedUp,
       finalTotal |-> roundedUp]

\* lines 44-99: calculateEstimate of the sidebar, for the area of its props
SidebarEstimate(area) ==
  LET sealerGallons == RMul(area, R(13, 100))
      sealerCost == RMul(sealerGallons, R(365, 100))
      sandBags == MathCeil(RDiv(sealerGallons, RInt(50)))
      sandCost == RMul(sandBags, RInt(10))
      fastDryBuckets == MathCeil(RDiv(sealerGallons, RInt(150)))
      fastDryCost == RMul(fastDryBuckets, RInt(50))
      prepSealBuckets == One
      prepSealCost == RMul(prepSealBuckets, RInt(50))
      \* ceil(sqrt(area) * 4 / c) = ceil(sqrt(16 * area / c^2))
      crackFillerBoxes == CeilSqrt(RDiv(RMul(RInt(16), area), RInt(100 * 100)))
      crackFillerCost == RMul(crackFillerBoxes, R(4499, 100))
      propaneTanks == CeilSqrt(RDiv(RMul(RInt(16), area), RInt(200 * 200)))
      propaneCost == RMul(propaneTanks, RInt(10))
      laborHours == MathCeil(RDiv(area, RInt(1000)))
      laborCost == RMul(laborHours, RInt(12))
      roundTripDistance == RMul(RInt(45), RInt(2))
      fuelCost == RMul(RDiv(roundTripDistance, RInt(8)), R(350, 100))
      subtotal == RAdd(RAdd(RAdd(RAdd(RAdd(RAdd(RAdd(sealerCost, sandCost), fastDryCost),
                                           prepSealCost),
                                      crackFillerCost),
                                 propaneCost),
                            laborCost),
                       fuelCost)
      markup25 == RMul(subtotal, R(125, 100))
      roundedUp == RMul(MathCeil(RDiv(markup25, RInt(10))), RInt(10))
      finalTotal == RMul(roundedUp, R(125, 100))
  IN  [area |-> area,
       materials |-> [sealer |-> [gallons |-> sealerGallons, cost |-> sealerCost],
                      sand |-> [bags |-> sandBags, cost |-> sandCost],
                      fastDry |-> [buckets |-> fastDryBuckets, cost |-> fastDryCost],
                      prepSeal |-> [buckets |-> prepSealBuckets, cost |-> prepSealCost],
                      crackFiller |-> [boxes |-> crackFillerBoxes, cost |-> crackFillerCost],
                      propane |-> [tanks |-> propaneTanks, cost |-> propaneCost]],
       labor |-> [hours |-> laborHours, cost |-> laborCost],
       fuel |-> [distance |-> roundTripDistance, cost |-> fuelCost],
       subtotal |-> subtotal, markup25 |-> markup25, roundedUp |-> roundedUp,
       finalTotal |-> finalTotal]

\* the areas the sidebar is rendered with: those of the engine's estimates
\* and every 50 sq ft up to 50 * SidebarSteps
SidebarSteps == 100
SidebarAreas == CalcAreas \cup {RInt(50 * k) : k \in 1..SidebarSteps}

\* SidebarEstimate of the areas of the model, evaluated once
SidebarMemo == [sa \in SidebarAreas |-> SidebarEstimate(sa)]
SidebarEstimateOf(area) ==
  IF area \in DOMAIN SidebarMemo THEN SidebarMemo[area] ELSE SidebarEstimate(area)

\* line 101: the sidebar is rendered with an area and computes its estimate
calculateEstimate(area) ==
  /\ last' = [op |-> "calculateEstimate", area |-> area]
  /\ result' = Return(SidebarEstimateOf(area))
  /\ UNCHANGED <<regionalPricing, pricingTiers, clock>>

-----------------------------------------------------------------------------
(* Specifications.                                                         *)

\* no estimate is held before the first call
CallerInit == kept = undefined

Init == EngineInit /\ DbInit /\ CallerInit

\* the engine: catalog updates, imports and estimates in any order
Next ==
  \/ \E region \in UpdateRegions, pricing \in UpdatePricings :
       updateRegionalPricing(region, pricing) /\ UNCHANGED <<dbVars, kept>>
  \/ \E jsonData \in ImportTexts :
       importRegionalPricing(jsonData) /\ UNCHANGED <<dbVars, kept>>
  \/ getAvailableRegions /\ UNCHANGED <<dbVars, kept>>
  \/ \E area \in EngineAreas, region \in EngineRegions,
        customerType \in EngineCustomerTypes :
       calculateDetailedEstimate(area, "driveway", "12 Main St", region, customerType)
         /\ UNCHANGED <<dbVars, kept>>

Spec == Init /\ [][Next]_vars

\* the calculation: estimates over a wide range of areas against one catalog
CalcInit ==
  /\ EngineInit
  /\ DbInit
  /\ CallerInit

CalcNext ==
  \/ /\ last.op = "constructor"
     /\ updateRegionalPricing(s_Texas, TexasPricing)
     /\ UNCHANGED <<dbVars, kept>>
  \/ \E area \in CalcAreas, jobType \in JobTypes, address \in Addresses,
        region \in CalcRegions, customerType \in CalcCustomerTypes :
       calculateDetailedEstimate(area, jobType, address, region, customerType)
         /\ UNCHANGED <<dbVars, kept>>

SpecCalc == CalcInit /\ [][CalcNext]_vars

RoundTripPricings == {TexasPricing, TexasPricingV2, TexasPricingNaN}
RoundTripRegions == {s_virginia, s_Texas, s_ohio}
RoundTripAreas == {R(1, AreaDen), RInt(1000), RInt(12000)}

\* the round trip: updates of an engine, its export, a fresh engine importing
\* the exported text, and estimates by whichever engine is the current one
RoundTripNext ==
  \/ \E region \in {s_Texas, s_ohio}, pricing \in RoundTripPricings :
       updateRegionalPricing(region, pricing) /\ UNCHANGED <<dbVars, kept>>
  \/ exportRegionalPricing /\ UNCHANGED <<dbVars, kept>>
  \/ FreshEngineImport /\ UNCHANGED <<dbVars, kept>>
  \/ \E area \in RoundTripAreas, region \in RoundTripRegions,
        customerType \in CalcCustomerTypes :
       calculateDetailedEstimate(area, "driveway", "12 Main St", region, customerType)
         /\ UNCHANGED <<dbVars, kept>>

SpecRoundTrip == Init /\ [][RoundTripNext]_vars

\* the sidebar's estimate and the engine's quick estimate for the same areas
SidebarNext ==
  \/ \E area \in SidebarAreas :
       calculateEstimate(area) /\ UNCHANGED <<dbVars, kept>>
  \/ \E area \in EngineAreas :
       calculateQuickEstimate(area, s_virginia) /\ UNCHANGED <<dbVars, kept>>

SpecSidebar == Init /\ [][SidebarNext]_vars

\* estimates whose result the caller keeps, and catalog updates after them
FrameAreas == {RInt(12000)}
FrameRegions == {s_virginia, s_texas}
FrameUpdateRegions == {s_Virginia, s_Texas}
KeptAfter(returned) == IF returned.kind = "return" THEN returned.value ELSE kept

FrameNext ==
  \/ \E region \in FrameUpdateRegions, pricing \in UpdatePricings :
       updateRegionalPricing(region, pricing) /\ UNCHANGED <<dbVars, kept>>
  \/ \E area \in FrameAreas, region \in FrameRegions, customerType \in CalcCustomerTypes :
       /\ calculateDetailedEstimate(area, "driveway", "12 Main St", region, customerType)
       /\ kept' = KeptAfter(result')
       /\ UNCHANGED dbVars
  \/ \E area \in FrameAreas, region \in FrameRegions :
       /\ calculateQuickEstimate(area, region)
       /\ kept' = KeptAfter(result')
       /\ UNCHANGED dbVars

SpecFrame == Init /\ [][FrameNext]_vars

\* the store: saveEstimate calls of several callers, interleaved at their awaits
DbNext ==
  \/ \E c \in Callers, project_id \in ProjectIds, is_current \in BOOLEAN,
        finalTotal \in FinalTotals :
       SaveEstimateCall(c, project_id, is_current, finalTotal) /\ UNCHANGED <<engineVars, kept>>
  \/ \E c \in Callers : SaveEstimateGetUser(c) /\ UNCHANGED <<engineVars, kept>>
  \/ \E c \in Callers : SaveEstimateSelect(c) /\ UNCHANGED <<engineVars, kept>>
  \/ \E c \in Callers : SaveEstimateClearCurrent(c) /\ UNCHANGED <<engineVars, kept>>
  \/ \E c \in Callers : SaveEstimateInsert(c) /\ UNCHANGED <<engineVars, kept>>
  \/ \E c \in Callers : SaveEstimateUpdateProject(c) /\ UNCHANGED <<engineVars, kept>>
  \/ \E c \in Callers : SaveEstimateReturn(c) /\ UNCHANGED <<engineVars, kept>>

SpecDb == Init /\ [][DbNext]_vars

\* the store used by one caller, one saveEstimate call after the other
SavingCaller == "c1"

SaveNext ==
  \/ \E project_id \in ProjectIds, is_current \in BOOLEAN, finalTotal \in FinalTotals :
       /\ SaveEstimateCallRecorded(SavingCaller, project_id, is_current, finalTotal)
       /\ UNCHANGED <<engineVars, kept>>
  \/ SaveEstimateGetUser(SavingCaller) /\ UNCHANGED <<engineVars, kept>>
  \/ SaveEstimateSelect(SavingCaller) /\ UNCHANGED <<engineVars, kept>>
  \/ SaveEstimateClearCurrent(SavingCaller) /\ UNCHANGED <<engineVars, kept>>
  \/ SaveEstimateInsert(SavingCaller) /\ UNCHANGED <<engineVars, kept>>
  \/ SaveEstimateUpdateProject(SavingCaller) /\ UNCHANGED <<engineVars, kept>>
  \/ SaveEstimateReturn(SavingCaller) /\ UNCHANGED <<engineVars, kept>>

SpecSave == Init /\ [][SaveNext]_vars

-----------------------------------------------------------------------------
(* The claims.                                                             *)

IsEstimate(l) == l.op = "calculateDetailedEstimate"
KnownRegion(region) == toLowerCase(region) \in DOMAIN regionalPricing

\* C1: a calculateDetailedEstimate call whose lower-cased region is not a key
\* of the catalog raises an error, returns no estimate (so none computed from
\* a default region) and leaves the catalog and the tiers as they were.
C1_UnknownRegionRaises ==
  [][ (IsEstimate(last') /\ toLowerCase(last'.region) \notin DOMAIN regionalPricing)
        => /\ result'.kind = "throw"
           /\ regionalPricing' = regionalPricing
           /\ pricingTiers' = pricingTiers ]_vars

\* an estimate for an unknown region was asked of a catalog that updates and
\* imports have changed, and it threw
C1_Witness ==
  /\ IsEstimate(last)
  /\ ~KnownRegion(last.region)
  /\ regionalPricing # DEFAULT_REGIONAL_PRICING
  /\ result = Throw("Error", 302)

\* C2: a calculateDetailedEstimate call with area <= 0 is rejected with an
\* error; no estimate is returned for it.
C2_NonPositiveAreaRejected ==
  (IsEstimate(last) /\ RLe(last.area, Zero)) => result.kind = "throw"

\* C3: for every known region, customer type and area > 0 the returned
\* pricing.finalTotal is at least the minimumCharge of the customer's tier.
C3_MinimumChargeFloor ==
  (IsEstimate(last) /\ result.kind = "return" /\ KnownRegion(last.region)
     /\ RLt(Zero, last.area))
    => RGe(result.value.pricing.finalTotal, pricingTiers[last.customerType].minimumCharge)

\* the positions of the volume discounts of a tier whose threshold is <= area
MetThresholds(tier, area) ==
  IF Has(tier, "volumeDiscounts")
  THEN {i \in DOMAIN tier.volumeDiscounts : RLe(tier.volumeDiscounts[i].threshold, area)}
  ELSE {}

\* C4: the markup of a commercial or industrial estimate is the base markup
\* times (1 - discount) of the one volume discount with the largest
\* threshold <= area, and the base markup when no threshold is <= area;
\* commercial at 12000 sq ft has markup 0.20 * 0.90 = 0.18.
C4_LargestThresholdDiscount ==
  (IsEstimate(last) /\ result.kind = "return"
     /\ last.customerType \in {"commercial", "industrial"})
    => LET tier == pricingTiers[last.customerType]
           met == MetThresholds(tier, last.area)
           markup == result.value.pricing.markup
       IN  /\ met = {} => REq(markup, tier.markup)
           /\ met # {} =>
                \E i \in met :
                  /\ \A j \in met \ {i} :
                       RLt(tier.volumeDiscounts[j].threshold, tier.volumeDiscounts[i].threshold)
                  /\ REq(markup, RMul(tier.markup, OneMinus(tier.volumeDiscounts[i].discount)))
           /\ (last.customerType = "commercial" /\ REq(last.area, RInt(12000)))
                => REq(markup, R(18, 100))

\* a commercial estimate for 12000 sq ft returned with markup 0.18
C4_Witness ==
  /\ IsEstimate(last) /\ result.kind = "return"
  /\ last.customerType = "commercial" /\ REq(last.area, RInt(12000))
  /\ REq(result.value.pricing.markup, R(18, 100))

\* C5: when the area equals a volume-discount threshold of the commercial or
\* industrial tier, the markup is the base markup times (1 - that
\* threshold's discount).
C5_DiscountAtThreshold ==
  (IsEstimate(last) /\ result.kind = "return"
     /\ last.customerType \in {"commercial", "industrial"})
    => LET tier == pricingTiers[last.customerType]
       IN  \A i \in DOMAIN tier.volumeDiscounts :
             REq(last.area, tier.volumeDiscounts[i].threshold)
               => REq(result.value.pricing.markup,
                      RMul(tier.markup, OneMinus(tier.volumeDiscounts[i].discount)))

\* an industrial estimate for exactly 25000 sq ft returned with markup 0.15 * 0.90
C5_Witness ==
  /\ IsEstimate(last) /\ result.kind = "return"
  /\ last.customerType = "industrial" /\ REq(last.area, RInt(25000))
  /\ REq(result.value.pricing.markup, R(135, 1000))

\* two consecutive estimates for the same region and customer type against the
\* same catalog, both returned, the second for a larger area than the first
LargerAreaNext ==
  /\ IsEstimate(last) /\ IsEstimate(last')
  /\ last'.region = last.region
  /\ last'.customerType = last.customerType
  /\ regionalPricing' = regionalPricing
  /\ result.kind = "return" /\ result'.kind = "return"
  /\ RLt(Zero, last.area) /\ RLt(last.area, last'.area)

\* C6 as stated: for a fixed region, customer type and catalog and areas
\* 0 < a1 < a2, finalTotal(a2) >= finalTotal(a1), also across a
\* volume-discount threshold.
C6_Monotone ==
  [][ LargerAreaNext
        => RGe(result'.value.pricing.finalTotal, result.value.pricing.finalTotal) ]_vars

\* C6 amended: for a fixed region, customer type and catalog and areas
\* 0 < a1 < a2 that meet the same volume-discount thresholds of the tier
\* (any two areas, for residential), finalTotal(a2) >= finalTotal(a1).
C6_MonotoneWithinBand ==
  [][ (LargerAreaNext
         /\ MetThresholds(pricingTiers[last.customerType], last.area)
               = MetThresholds(pricingTiers[last.customerType], last'.area))
        => RGe(result'.value.pricing.finalTotal, result.value.pricing.finalTotal) ]_vars

\* a commercial estimate for 5001 sq ft, in the band of the 5000 threshold,
\* returned a total above that of 5000 sq ft for the same record
C6_Witness ==
  /\ IsEstimate(last) /\ result.kind = "return"
  /\ last.customerType = "commercial" /\ REq(last.area, RInt(5001))
  /\ MetThresholds(pricingTiers["commercial"], last.area) = {1}
  /\ RLt(EstimateBodyOf(regionalPricing[toLowerCase(last.region)],
                        pricingTiers["commercial"], RInt(5000),
                        "commercial").value.pricing.finalTotal,
         result.value.pricing.finalTotal)

\* two consecutive calls of calculateDetailedEstimate with the same arguments
\* against the same catalog, both returned
SameCallAgain ==
  /\ IsEstimate(last) /\ last' = last
  /\ regionalPricing' = regionalPricing /\ pricingTiers' = pricingTiers
  /\ result.kind = "return" /\ result'.kind = "return"

WithoutDates(estimate) ==
  [estimate EXCEPT !.projectInfo =
     [f \in DOMAIN estimate.projectInfo \ {"estimateDate", "validUntil"} |->
        estimate.projectInfo[f]]]

C8_IncompleteImportRejected ==
  [][ (last'.op = "importRegionalPricing"
         /\ last'.jsonData.parses
         /\ \E k \in DOMAIN last'.jsonData.value :
              ~IsRegionalPricing(last'.jsonData.value[k]))
        => (result'.kind = "throw" /\ regionalPricing' = regionalPricing) ]_vars

\* C9: every returned estimate has its material prices, labor rate, fuel
\* parameters, business costs, tax rate and region name from the one record
\* that the catalog holds for the region, whatever updates and imports
\* came before the call.
C9_NoTornRead ==
  (IsEstimate(last) /\ result.kind = "return")
    => LET rec == regionalPricing[toLowerCase(last.region)]
           e == result.value
       IN  /\ e.materials.sealer.unitCost = rec.materials.sealer.pricePerGallon
           /\ e.materials.sand.unitCost = rec.materials.sand.pricePerBag
           /\ e.materials.fastDry.unitCost = rec.materials.fastDry.pricePerBucket
           /\ e.materials.prepSeal.unitCost = rec.materials.prepSeal.pricePerBucket
           /\ e.materials.crackFiller.unitCost = rec.materials.crackFiller.pricePerBox
           /\ e.materials.propane.unitCost = rec.materials.propane.pricePerTank
           /\ e.labor.rate = rec.labor.hourlyRate
           /\ REq(e.labor.totalCost, RMul(e.labor.hours, rec.labor.hourlyRate))
           /\ e.expenses.fuel.rate = rec.fuel.pricePerGallon
           /\ e.expenses.fuel.distance = rec.fuel.roundTripDistance
           /\ e.expenses.insurance.rate = rec.businessCosts.insuranceRate
           /\ e.expenses.equipment.totalCost = rec.businessCosts.equipmentDepreciation
           /\ e.expenses.permits.totalCost = rec.businessCosts.permitCosts
           /\ Has(rec, "taxRate") => e.pricing.taxRate = rec.taxRate
           /\ e.projectInfo.region = rec.region

\* an estimate for 'texas' returned with the labor rate and tax rate of the
\* second version of the record, which replaced the first
C9_Witness ==
  /\ IsEstimate(last) /\ result.kind = "return"
  /\ toLowerCase(last.region) = s_texas
  /\ regionalPricing[s_texas] = TexasPricingV2
  /\ result.value.labor.rate = TexasPricingV2.labor.hourlyRate
  /\ result.value.pricing.taxRate = TexasPricingV2.taxRate

\* C10: at most one estimate of each project has is_current = true.
C10_AtMostOneCurrent ==
  \A p \in ProjectIds :
    Cardinality({e \in estimates : e.project_id = p /\ e.is_current}) <= 1

\* what calculateDetailedEstimate computes from a catalog, but for the
\* projectInfo: the error, or the materials, labor, expenses, pricing and
\* profitAnalysis
EstimateBodyIn(catalog, tiers, area, region, customerType) ==
  IF ~Truthy(Get(catalog, toLowerCase(region))) THEN Throw("Error", 302)
  ELSE EstimateBodyOf(Get(catalog, toLowerCase(region)),
                      IF Has(tiers, customerType) THEN tiers[customerType] ELSE undefined,
                      area, customerType)

\* C11: when a fresh engine imports the text an engine exported, it produces
\* for every region the exporting engine accepted, every customer type and
\* every area > 0 the same materials, labor, expenses, pricing and
\* profitAnalysis as the exporting engine.
C11_RoundTrip ==
  [][ (last.op = "exportRegionalPricing" /\ last'.op = "importRegionalPricing")
        => \A region \in RoundTripRegions, customerType \in CalcCustomerTypes,
              area \in RoundTripAreas :
             EstimateBodyIn(regionalPricing, pricingTiers, area, region,
                            customerType).kind = "return"
               => EstimateBodyIn(regionalPricing', pricingTiers', area, region, customerType)
                    = EstimateBodyIn(regionalPricing, pricingTiers, area, region,
                                     customerType) ]_vars

\* the last call was a calculateDetailedEstimate that returned an estimate;
\* the record and the tier it selected
Returned == IsEstimate(last) /\ result.kind = "return"
SelectedPricing == regionalPricing[toLowerCase(last.region)]
SelectedTier == pricingTiers[last.customerType]

\* C12: the minimum charge is enforced after tax: finalTotal is the larger of
\* beforeTax + taxAmount and the tier's minimumCharge, and when the floor
\* applies beforeTax is still subtotal + markupAmount (not floored), and
\* taxAmount is still beforeTax times the region's tax rate (not the tax on
\* the floored amount), with markupAmount = subtotal * markup.
C12_FloorAfterTax ==
  Returned =>
    LET p == result.value.pricing
        minimumCharge == SelectedTier.minimumCharge
        markupAmount == RMul(p.subtotal, p.markup)
        beforeTax == RAdd(p.subtotal, markupAmount)
        taxAmount == RMul(beforeTax, SelectedPricing.taxRate)
        taxed == RAdd(beforeTax, taxAmount)
    IN  /\ RLt(taxed, minimumCharge) =>
              /\ REq(p.finalTotal, minimumCharge)
              /\ REq(p.markupAmount, markupAmount)
              /\ REq(p.beforeTax, beforeTax)
              /\ REq(p.taxAmount, taxAmount)
        /\ ~RLt(taxed, minimumCharge) => REq(p.finalTotal, taxed)

\* a residential estimate whose taxed amount is below the minimum charge of
\* 200 was returned with finalTotal 200
C12_Witness ==
  /\ Returned
  /\ last.customerType = "residential"
  /\ RLt(RAdd(result.value.pricing.beforeTax, result.value.pricing.taxAmount), RInt(200))
  /\ RLt(Zero, result.value.pricing.taxAmount)
  /\ REq(result.value.pricing.finalTotal, RInt(200))

\* C13: tax is applied after markup: in every estimate markupAmount is
\* subtotal * markup, beforeTax is subtotal + markupAmount and taxAmount is
\* beforeTax times the tax rate of the selected region; a volume discount
\* changes the markup rate and not the subtotal, which is the subtotal of the
\* residential estimate for the same area and region.
C13_TaxAfterMarkup ==
  Returned =>
    LET p == result.value.pricing
    IN  /\ REq(p.markupAmount, RMul(p.subtotal, p.markup))
        /\ REq(p.beforeTax, RAdd(p.subtotal, p.markupAmount))
        /\ REq(p.taxAmount, RMul(p.beforeTax, SelectedPricing.taxRate))
        /\ REq(p.taxRate, SelectedPricing.taxRate)
        /\ REq(p.subtotal,
               EstimateBodyOf(SelectedPricing, pricingTiers["residential"], last.area,
                              "residential").value.pricing.subtotal)

\* a commercial estimate for 12000 sq ft (discounted markup 0.18) in North
\* Carolina was returned with the tax 0.0475 * beforeTax and a markup amount
\* that is part of the tax base
C13_Witness ==
  /\ Returned
  /\ last.customerType = "commercial" /\ REq(last.area, RInt(12000))
  /\ toLowerCase(last.region) = s_north_carolina
  /\ REq(result.value.pricing.markup, R(18, 100))
  /\ RLt(result.value.pricing.subtotal, result.value.pricing.beforeTax)
  /\ REq(result.value.pricing.taxAmount, RMul(result.value.pricing.beforeTax, R(475, 10000)))

\* C14: labor.hours is the larger of area * hoursPerSqFt and minimumHours,
\* not rounded: minimumHours exactly when area * hoursPerSqFt is below it,
\* area * hoursPerSqFt otherwise; labor.totalCost is labor.hours * hourlyRate.
C14_LaborHours ==
  Returned =>
    LET labor == result.value.labor
        rates == SelectedPricing.labor
        worked == RMul(last.area, rates.hoursPerSqFt)
    IN  /\ RLt(worked, rates.minimumHours) => REq(labor.hours, rates.minimumHours)
        /\ ~RLt(worked, rates.minimumHours) => REq(labor.hours, worked)
        /\ REq(labor.totalCost, RMul(labor.hours, rates.hourlyRate))

\* an estimate for an area whose area * hoursPerSqFt is positive and below
\* the minimum hours was returned with exactly the minimum hours
C14_Witness ==
  /\ Returned
  /\ RLt(Zero, RMul(last.area, SelectedPricing.labor.hoursPerSqFt))
  /\ RLt(RMul(last.area, SelectedPricing.labor.hoursPerSqFt),
         SelectedPricing.labor.minimumHours)
  /\ REq(result.value.labor.hours, SelectedPricing.labor.minimumHours)
  /\ REq(result.value.labor.totalCost,
         RMul(SelectedPricing.labor.minimumHours, SelectedPricing.labor.hourlyRate))

\* records that differ from a record only in equipmentDepreciation, in
\* permitCosts or in the fuel parameters
OtherOverheads(pricing) ==
  {[pricing EXCEPT !.businessCosts.equipmentDepreciation = RInt(75)],
   [pricing EXCEPT !.businessCosts.permitCosts = RInt(60)],
   [pricing EXCEPT !.fuel = [pricePerGallon |-> R(425, 100), mpg |-> RInt(10),
                             roundTripDistance |-> RInt(120)]]}

\* the six material totals and the labor total of an estimate, added up
MaterialsAndLabor(e) ==
  RAdd(RAdd(RAdd(RAdd(RAdd(RAdd(e.materials.sealer.totalCost, e.materials.sand.totalCost),
                           e.materials.fastDry.totalCost),
                      e.materials.prepSeal.totalCost),
                 e.materials.crackFiller.totalCost),
            e.materials.propane.totalCost),
       e.labor.totalCost)

\* C15: the insurance cost of an estimate is (the sum of the six material
\* totals + the labor total) * insuranceRate, and an estimate for the same
\* inputs against a record that differs only in equipmentDepreciation,
\* permitCosts or the fuel parameters has the same insurance cost.
C15_InsuranceBase ==
  Returned =>
    /\ REq(result.value.expenses.insurance.totalCost,
           RMul(MaterialsAndLabor(result.value), SelectedPricing.businessCosts.insuranceRate))
    /\ \A other \in OtherOverheads(SelectedPricing) :
         REq(EstimateBodyOf(other, SelectedTier, last.area,
                            last.customerType).value.expenses.insurance.totalCost,
             result.value.expenses.insurance.totalCost)

\* an estimate with positive insurance, fuel, equipment and permit costs was
\* returned, and the estimate against the record with other permit costs has
\* another subtotal and the same insurance cost
C15_Witness ==
  /\ Returned
  /\ RLt(Zero, result.value.expenses.insurance.totalCost)
  /\ RLt(Zero, result.value.expenses.fuel.totalCost)
  /\ RLt(Zero, result.value.expenses.equipment.totalCost)
  /\ RLt(Zero, result.value.expenses.permits.totalCost)
  /\ LET other == EstimateBodyOf([SelectedPricing EXCEPT !.businessCosts.permitCosts = RInt(60)],
                                 SelectedTier, last.area, last.customerType).value
     IN  /\ ~REq(other.pricing.subtotal, result.value.pricing.subtotal)
         /\ REq(other.expenses.insurance.totalCost, result.value.expenses.insurance.totalCost)

\* q is a whole number; q - 1 for a finite q >= 1; x * x
IsWhole(q) == IsFinite(q) /\ REq(q, MathCeil(q))
MinusOne(q) == Reduce(BigStrip(BigSubB(q.n, q.d, 0)), q.d)
Squared(x) == RMul(x, x)
\* q is the least whole number >= x, for x > 0
IsCeilingOf(q, x) ==
  /\ IsWhole(q) /\ RLe(One, q)
  /\ RLe(x, q) /\ RLt(MinusOne(q), x)
\* q is the least whole number >= the square root of xx, for xx > 0
IsCeilingOfRoot(q, xx) ==
  /\ IsWhole(q) /\ RLe(One, q)
  /\ RLe(xx, Squared(q)) /\ RLt(Squared(MinusOne(q)), xx)

\* C16: for every area > 0 the sand, fastDry, crackFiller and propane
\* quantities are the whole-number ceilings of sealerGallons * bagsPerGallon,
\* sealerGallons * bucketsPerGallon, 4 * sqrt(area) / coveragePerBox and
\* 4 * sqrt(area) * tanksPerLinearFoot; the sealer quantity is area /
\* coverageRate, not rounded; prepSeal is the record's bucketsPerProject; and
\* each material's totalCost is its reported quantity times its unitCost.
C16_MaterialQuantities ==
  (Returned /\ RLt(Zero, last.area)) =>
    LET m == result.value.materials
        c == SelectedPricing.materials
        sealerGallons == RDiv(last.area, c.sealer.coverageRate)
        perimeterSquared == RMul(RInt(16), last.area)
    IN  /\ REq(m.sealer.quantity, sealerGallons)
        /\ IsCeilingOf(m.sand.quantity, RMul(sealerGallons, c.sand.bagsPerGallon))
        /\ IsCeilingOf(m.fastDry.quantity, RMul(sealerGallons, c.fastDry.bucketsPerGallon))
        /\ IsCeilingOfRoot(m.crackFiller.quantity,
                           RDiv(perimeterSquared, Squared(c.crackFiller.coveragePerBox)))
        /\ IsCeilingOfRoot(m.propane.quantity,
                           RMul(perimeterSquared, Squared(c.propane.tanksPerLinearFoot)))
        /\ REq(m.prepSeal.quantity, c.prepSeal.bucketsPerProject)
        /\ REq(m.sealer.unitCost, c.sealer.pricePerGallon)
        /\ REq(m.sand.unitCost, c.sand.pricePerBag)
        /\ REq(m.fastDry.unitCost, c.fastDry.pricePerBucket)
        /\ REq(m.prepSeal.unitCost, c.prepSeal.pricePerBucket)
        /\ REq(m.crackFiller.unitCost, c.crackFiller.pricePerBox)
        /\ REq(m.propane.unitCost, c.propane.pricePerTank)
        /\ \A name \in DOMAIN m :
             REq(m[name].totalCost, RMul(m[name].quantity, m[name].unitCost))

\* an estimate was returned whose sealer quantity is not whole and whose sand
\* quantity is a whole number above the continuous requirement
C16_Witness ==
  /\ Returned /\ RLt(Zero, last.area)
  /\ ~IsWhole(result.value.materials.sealer.quantity)
  /\ IsWhole(result.value.materials.sand.quantity)
  /\ RLt(RMul(result.value.materials.sealer.quantity,
              SelectedPricing.materials.sand.bagsPerGallon),
         result.value.materials.sand.quantity)
  /\ RLt(One, result.value.materials.crackFiller.quantity)

\* C17: pricing.subtotal is the sum of the six material totals, the labor
\* total and the fuel, insurance, equipment and permit totals reported in
\* the same estimate; the equipment and permit totals are the region's
\* equipmentDepreciation and permitCosts, whatever the area.
C17_SubtotalIsSum ==
  Returned =>
    LET e == result.value
    IN  /\ REq(e.pricing.subtotal,
               RAdd(MaterialsAndLabor(e),
                    RAdd(RAdd(e.expenses.fuel.totalCost, e.expenses.insurance.totalCost),
                         RAdd(e.expenses.equipment.totalCost, e.expenses.permits.totalCost))))
        /\ REq(e.expenses.equipment.totalCost,
               SelectedPricing.businessCosts.equipmentDepreciation)
        /\ REq(e.expenses.permits.totalCost, SelectedPricing.businessCosts.permitCosts)

\* an estimate for North Carolina (permits 25, equipment 30) and 50001 sq ft
\* was returned with a subtotal above its materials and labor
C17_Witness ==
  /\ Returned
  /\ toLowerCase(last.region) = s_north_carolina /\ REq(last.area, RInt(50001))
  /\ REq(result.value.expenses.permits.totalCost, RInt(25))
  /\ REq(result.value.expenses.equipment.totalCost, RInt(30))
  /\ RLt(MaterialsAndLabor(result.value), result.value.pricing.subtotal)

\* C18: a residential estimate has the base markup of the residential tier
\* (0.25) for every area > 0, however large: no volume discount is applied.
C18_ResidentialMarkup ==
  (Returned /\ last.customerType = "residential" /\ RLt(Zero, last.area))
    => /\ REq(result.value.pricing.markup, pricingTiers.residential.markup)
       /\ REq(result.value.pricing.markup, R(25, 100))
       /\ REq(result.value.pricing.markupAmount,
              RMul(result.value.pricing.subtotal, R(25, 100)))

\* a residential estimate for 50001 sq ft, above every threshold of the other
\* tiers, was returned with markup 0.25
C18_Witness ==
  /\ Returned /\ last.customerType = "residential"
  /\ REq(last.area, RInt(50001))
  /\ \A t \in Thresholds : RLt(RInt(t), last.area)
  /\ REq(result.value.pricing.markup, R(25, 100))

\* C19: with the default catalog, calculateDetailedEstimate(1000, 'driveway',
\* _, 'virginia', 'residential') returns sand quantity 3, fastDry quantity 1,
\* crackFiller quantity 2, propane quantity 1, labor.hours 2 with
\* labor.totalCost 24, a fuel cost of 90 / 8 * 3.50 = 39.375 and a
\* finalTotal of at least 200.
C19_VirginiaDriveway ==
  (IsEstimate(last) /\ REq(last.area, RInt(1000)) /\ last.jobType = "driveway"
     /\ last.region = s_virginia /\ last.customerType = "residential"
     /\ regionalPricing[s_virginia] = DEFAULT_REGIONAL_PRICING[s_virginia])
    => /\ result.kind = "return"
       /\ REq(result.value.materials.sand.quantity, RInt(3))
       /\ REq(result.value.materials.fastDry.quantity, RInt(1))
       /\ REq(result.value.materials.crackFiller.quantity, RInt(2))
       /\ REq(result.value.materials.propane.quantity, RInt(1))
       /\ REq(result.value.labor.hours, RInt(2))
       /\ REq(result.value.labor.totalCost, RInt(24))
       /\ REq(result.value.expenses.fuel.totalCost, R(39375, 1000))
       /\ RGe(result.value.pricing.finalTotal, RInt(200))

\* the call was made on the engine as constructed (the default catalog) and
\* returned an estimate with 3 bags of sand and a total above the minimum
C19_Witness ==
  /\ IsEstimate(last) /\ REq(last.area, RInt(1000)) /\ last.jobType = "driveway"
  /\ last.region = s_virginia /\ last.customerType = "residential"
  /\ regionalPricing = DEFAULT_REGIONAL_PRICING
  /\ result.kind = "return"
  /\ REq(result.value.materials.sand.quantity, RInt(3))
  /\ RLt(RInt(200), result.value.pricing.finalTotal)

\* C20: in every returned estimate grossProfit is pricing.markupAmount,
\* breakEvenPoint is pricing.subtotal and profitMargin is markupAmount /
\* finalTotal * 100, against the final total (taxed and floored by the
\* minimum charge); when the minimum charge raises finalTotal, grossProfit is
\* still subtotal * markup.
C20_ProfitAnalysis ==
  Returned =>
    LET p == result.value.pricing
        a == result.value.profitAnalysis
    IN  /\ REq(a.grossProfit, p.markupAmount)
        /\ REq(a.breakEvenPoint, p.subtotal)
        /\ REq(a.profitMargin, RMul(RDiv(p.markupAmount, p.finalTotal), RInt(100)))
        /\ RLt(RAdd(p.beforeTax, p.taxAmount), p.finalTotal)
             => REq(a.grossProfit, RMul(p.subtotal, p.markup))

\* an estimate whose finalTotal the minimum charge raised above the taxed
\* amount was returned with a positive grossProfit equal to the markup amount
C20_Witness ==
  /\ Returned
  /\ RLt(RAdd(result.value.pricing.beforeTax, result.value.pricing.taxAmount),
         result.value.pricing.finalTotal)
  /\ REq(result.value.pricing.finalTotal, SelectedTier.minimumCharge)
  /\ RLt(Zero, result.value.profitAnalysis.grossProfit)
  /\ REq(result.value.profitAnalysis.grossProfit, result.value.pricing.markupAmount)
  /\ RLt(result.value.profitAnalysis.profitMargin,
         RMul(RDiv(result.value.pricing.markupAmount, result.value.pricing.subtotal),
              RInt(100)))

\* C21: a calculateDetailedEstimate call whose customerType is none of
\* residential, commercial, industrial returns no estimate: it is rejected
\* with an error raised before line 311, where the first material quantity is
\* computed.
C21_UnknownCustomerTypeRejected ==
  (IsEstimate(last) /\ last.customerType \notin {"residential", "commercial", "industrial"})
    => /\ result.kind = "throw"
       /\ result.line < 311

\* C22: importRegionalPricing given text that JSON.parse cannot parse raises
\* an error to the caller and leaves every catalog entry and the tiers as
\* they were, so every estimate computed afterwards equals the one computed
\* before.
C22_UnparseableImportRaises ==
  [][ (last'.op = "importRegionalPricing" /\ ~last'.jsonData.parses)
        => /\ result'.kind = "throw"
           /\ regionalPricing' = regionalPricing
           /\ pricingTiers' = pricingTiers
           /\ \A region \in EngineRegions, customerType \in EngineCustomerTypes,
                 area \in EngineAreas :
                EstimateBodyIn(regionalPricing', pricingTiers', area, region, customerType)
                  = EstimateBodyIn(regionalPricing, pricingTiers, area, region,
                                   customerType) ]_vars

\* text that is not JSON was given to an engine whose catalog updates and
\* imports had changed, and the call threw the parser's SyntaxError
C22_Witness ==
  /\ last.op = "importRegionalPricing" /\ ~last.jsonData.parses
  /\ result = Throw("SyntaxError", 500)
  /\ regionalPricing # DEFAULT_REGIONAL_PRICING
  /\ s_ohio \in DOMAIN regionalPricing

\* the spellings of one region name in different letter cases
TexasSpellings == {s_texas, s_Texas, s_TEXAS}

\* C23: updateRegionalPricing(r, p) adds or replaces exactly the entry keyed
\* by the lower-cased r: afterwards the entry is p, an estimate for r in any
\* letter case is computed from p, every other entry of the catalog is as
\* before, and the tiers are unchanged.
C23_UpdateOneEntry ==
  [][ (last'.op = "updateRegionalPricing" /\ last'.region \in TexasSpellings)
        => /\ DOMAIN regionalPricing' = DOMAIN regionalPricing \cup {s_texas}
           /\ regionalPricing'[s_texas] = last'.pricing
           /\ \A key \in DOMAIN regionalPricing \ {s_texas} :
                regionalPricing'[key] = regionalPricing[key]
           /\ pricingTiers' = pricingTiers
           /\ \A region \in TexasSpellings, customerType \in EngineCustomerTypes,
                 area \in EngineAreas :
                EstimateBodyIn(regionalPricing', pricingTiers', area, region, customerType)
                  = EstimateBodyOf(last'.pricing,
                                   IF Has(pricingTiers, customerType)
                                   THEN pricingTiers[customerType] ELSE undefined,
                                   area, customerType) ]_vars

\* updateRegionalPricing('Texas', p) replaced the entry 'texas', which held
\* another record, in a catalog that also holds the imported 'ohio'
C23_Witness ==
  /\ last.op = "updateRegionalPricing" /\ last.region = s_Texas
  /\ last.pricing = TexasPricingV2
  /\ regionalPricing[s_texas] = TexasPricingV2
  /\ s_ohio \in DOMAIN regionalPricing
  /\ regionalPricing[s_virginia] # VirginiaPricing

\* the last call was one of the two estimate operations
IsAnyEstimate(l) == l.op \in {"calculateDetailedEstimate", "calculateQuickEstimate"}

\* C24: calculateDetailedEstimate and calculateQuickEstimate leave the
\* regional-pricing catalog and the tiers unchanged, so after any number of
\* estimate calls each tier's volumeDiscounts list has the order and the
\* contents it was constructed with; and a catalog update leaves an estimate
\* that was returned earlier, and is still held by the caller, as it was.
C24_EstimatesChangeNothing ==
  [][ /\ IsAnyEstimate(last')
           => /\ regionalPricing' = regionalPricing
              /\ pricingTiers' = pricingTiers
              /\ \A customerType \in {"commercial", "industrial"} :
                   pricingTiers'[customerType].volumeDiscounts
                     = PRICING_TIERS[customerType].volumeDiscounts
      /\ (last'.op = "updateRegionalPricing" /\ kept # undefined)
           => kept' = kept ]_vars

\* a caller holds a commercial estimate computed from the default 'virginia'
\* record, whose discount lookup filtered and sorted, and 'virginia' was
\* replaced by another record afterwards
C24_Witness ==
  /\ last.op = "updateRegionalPricing" /\ toLowerCase(last.region) = s_virginia
  /\ regionalPricing[s_virginia] # VirginiaPricing
  /\ kept # undefined
  /\ "projectInfo" \in DOMAIN kept
  /\ kept.projectInfo.region = VirginiaPricing.region
  /\ REq(kept.pricing.markup, R(18, 100))
  /\ REq(kept.pricing.taxRate, VirginiaPricing.taxRate)
  /\ pricingTiers = PRICING_TIERS

\* C25: in every returned estimate projectInfo.validUntil is exactly 30 days
\* (30 * 24 * 60 * 60 * 1000 ms) after projectInfo.estimateDate.
C25_ValidThirtyDays ==
  Returned =>
    result.value.projectInfo.validUntil
      = BigAdd(result.value.projectInfo.estimateDate,
               BigMul(BigFromInt(30 * 24 * 60 * 60), BigFromInt(1000)))

\* C26: saveEstimate gives version 1 to the first estimate of a project and
\* the highest existing version + 1 to each later one, so under any
\* interleaving of saveEstimate calls no two stored estimates of a project
\* have the same version, and the versions of a project are 1, 2, ... up to
\* the number of its estimates.
C26_VersionsDistinct ==
  \A p \in ProjectIds :
    /\ \A e1, e2 \in RowsOf(p) : e1.version = e2.version => e1 = e2
    /\ {e.version : e \in RowsOf(p)} = 1..Cardinality(RowsOf(p))

\* C27: the sidebar's estimate has markup25 = subtotal * 1.25, roundedUp the
\* smallest multiple of 10 that is >= markup25 and finalTotal = roundedUp *
\* 1.25; its subtotal is the sum of its eight costs (no tax is added), its
\* labor hours are the ceiling of area / 1000 (no minimum hours) and nothing
\* raises finalTotal to a minimum charge; for the same area its finalTotal
\* differs from the finalTotal of the engine's Virginia residential estimate.
C27_SidebarFormula ==
  (last.op = "calculateEstimate" /\ RLt(Zero, last.area)) =>
    LET e == result.value
        m == e.materials
        costs == RAdd(RAdd(RAdd(m.sealer.cost, m.sand.cost),
                           RAdd(m.fastDry.cost, m.prepSeal.cost)),
                      RAdd(RAdd(m.crackFiller.cost, m.propane.cost),
                           RAdd(e.labor.cost, e.fuel.cost)))
    IN  /\ REq(e.subtotal, costs)
        /\ REq(e.markup25, RMul(e.subtotal, R(125, 100)))
        /\ IsWhole(RDiv(e.roundedUp, RInt(10)))
        /\ RLe(e.markup25, e.roundedUp)
        /\ RLt(e.roundedUp, RAdd(e.markup25, RInt(10)))
        /\ REq(e.finalTotal, RMul(e.roundedUp, R(125, 100)))
        /\ IsCeilingOf(e.labor.hours, RDiv(last.area, RInt(1000)))
        /\ REq(e.labor.cost, RMul(e.labor.hours, RInt(12)))
        /\ ~REq(e.finalTotal,
                EstimateBodyOf(regionalPricing[s_virginia], pricingTiers["residential"],
                               last.area, "residential").value.pricing.finalTotal)

\* the sidebar's estimate for 1000 sq ft: 1 labor hour where the engine has
\* the minimum 2, markup25 rounded up to the next multiple of 10, and a
\* finalTotal above roundedUp
C27_Witness ==
  /\ last.op = "calculateEstimate" /\ REq(last.area, RInt(1000))
  /\ REq(result.value.labor.hours, One)
  /\ RLt(result.value.markup25, result.value.roundedUp)
  /\ RLt(result.value.roundedUp, result.value.finalTotal)
  /\ REq(EstimateBodyOf(regionalPricing[s_virginia], pricingTiers["residential"],
                        last.area, "residential").value.labor.hours, RInt(2))

\* C28: after any sequence of updateRegionalPricing and
\* importRegionalPricing calls every key of the catalog is lower-case, so
\* the record stored under it is the one calculateDetailedEstimate finds
\* when asked for that key.
C28_KeysLowerCase ==
  \A key \in DOMAIN regionalPricing :
    /\ toLowerCase(key) = key
    /\ Get(regionalPricing, toLowerCase(key)) = regionalPricing[key]

\* C29: every name that getAvailableRegions returns, in any reachable
\* catalog state (the default catalog included), is accepted as the region
\* argument of calculateDetailedEstimate and selects the record it was
\* listed for.
C29_ListedRegionsAccepted ==
  last.op = "getAvailableRegions" =>
    \A key \in DOMAIN regionalPricing :
      LET name == ValueOf(regionalPricing[key], "region")
      IN  /\ name \in result.value
          /\ name # undefined
          /\ Truthy(Get(regionalPricing, toLowerCase(name)))
          /\ Get(regionalPricing, toLowerCase(name)) = regionalPricing[key]

\* the step that ends the saveEstimate call of c, made with is_current true,
\* by the error of line 257 (no user) or of line 289 (the insert failed)
SaveFails(c) ==
  /\ saves[c].pc # "idle"
  /\ saves[c].is_current
  /\ saves'[c].pc = "idle"
  /\ saves'[c].outcome.kind = "throw"
  /\ saves'[c].outcome.line \in {257, 289}

\* C30: when a saveEstimate call with is_current true fails (no user, or the
\* insert fails), the stored estimates of the project are what they were
\* when the call was made: the current estimate is still current and there
\* is no new row.
C30_FailedSaveChangesNothing ==
  [][\A c \in Callers :
       SaveFails(c) =>
         {e \in estimates' : e.project_id = saves[c].project_id} = saves[c].before]_vars

====
